---------------------------- MODULE Spec2Model ----------------------------
(***************************************************************************)
(* Model of the free-tier resilience core of the Ollama/OpenRouter proxy:  *)
(* the failure store (store.go), the permanent-failure tracker, the rate   *)
(* limiters, the routing engine (getFreeChatForModel / getFreeChat and     *)
(* their streaming twins) and the chat handlers of both API dialects.      *)
(*                                                                         *)
(* Strings are sequences of one-character strings, so that                 *)
(* strings.Split(m, "/") and strings.Contains are computed, not assumed.   *)
(* Error messages are sequences of words; the classification helpers       *)
(* lower-case them and look for the key phrases.                           *)
(*                                                                         *)
(* Time is a digital clock: `now' counts ticks of 1000/TicksPerSec ms.     *)
(* The failure store keeps failed_at in whole seconds (time.Now().Unix()), *)
(* every other timestamp is kept at tick resolution.  Cooldowns are        *)
(* configured through FAILURE_COOLDOWN_MINUTES / RATELIMIT_COOLDOWN_MINUTES*)
(* (fractions of a minute are accepted by time.ParseDuration); the model   *)
(* draws them from small sets of whole seconds.                            *)
(*                                                                         *)
(* Further parts, each with an Init and a Next of its own over the same    *)
(* variables: the resolution of the API key at start-up (SpecKey), the     *)
(* free-model pool and its cache file over restarts (SpecPool), the model  *)
(* listings in free and non-free mode (SpecList), and request handlers     *)
(* running concurrently in goroutines with the mutexes of the limiters,    *)
(* the limiter registry and the tracker (SpecConc, SpecConcFair), on a     *)
(* finer clock that resolves the 50 ms intervals of the limiters.          *)
(* Then the free-mode listing while the failure store changes (SpecTags),  *)
(* /api/chat in non-free mode (SpecNonFree), the permanent-failure tracker *)
(* on its own (SpecTracker), the frames of a /v1/chat/completions stream   *)
(* (SpecSSE) and the direct attempt of the routing engine under more       *)
(* names and filters (SpecDirect).  Last, the concurrent handlers under    *)
(* fair scheduling with upstream calls that answer (SpecConcTerm), one     *)
(* limiter on its own with RecordFailure up to the point where the backoff *)
(* no longer fits a time.Duration (SpecLimiter), and the concurrent        *)
(* handlers at a limiter that is in backoff (SpecConcBackoff).             *)
(***************************************************************************)
EXTENDS Integers, Sequences, FiniteSets, TLC

VARIABLES
    now,               \* wall clock, in ticks
    defaultCooldown,   \* FailureStore.defaultCooldown, in ticks
    rateLimitCooldown, \* FailureStore.rateLimitCooldown, in ticks
    failures,          \* table failures: model -> row or NoRow
    stLast,            \* history: the last store operation on each model, marks since the last clear
    freeModels,        \* Server.freeModels (the pool)
    modelFilter,       \* Server.modelFilter
    freeMode,          \* Config.FreeMode
    modelNames,        \* OpenrouterProvider.modelNames (ids of the last model listing)
    permanentFailed,   \* PermanentFailureTracker.permanentFailed (its keys)
    limiters,          \* GlobalRateLimiter.limiters: model -> limiter or NoLimiter
    lastGlobal,        \* GlobalRateLimiter.lastGlobal
    temporaryFailed,   \* PermanentFailureTracker.temporaryFailed: model -> time or Never
    trkHist,           \* history: the last tracker operation and the permanent set before it
    limHist,           \* history: the last operation on a limiter called on its own
    pc,                \* position of the request handler
    req,               \* the request being served
    rt,                \* locals of the routing engine for this request
    resp,              \* what the client has been sent for this request
    reqCalls,          \* history: upstream calls issued for this request
    lastUp,            \* history: class of the last upstream answer per model, time of the last one
    nreq,              \* history: number of requests received
    boot,              \* position of the process start-up (cmd start, Server.Start)
    keySources,        \* where an API key may come from: flag, environment, config file
    apiKey,            \* the key runStart got from getAPIKey
    cacheFile,         \* the pool cache file free-models: absent, or its mtime and bytes
    poolHist,          \* history: how the pool was loaded, and from what
    handlers,          \* concurrent request handlers (goroutines): position and locals
    held,              \* the mutexes each handler holds
    upHist,            \* history: start of the last upstream call, smallest gap between two
    clock              \* wall clock of the concurrent handlers, in fine ticks

storeVars == <<failures, stLast>>
cfgVars   == <<defaultCooldown, rateLimitCooldown, freeModels, modelFilter, freeMode,
               modelNames>>
trackVars == <<permanentFailed, limiters, lastGlobal, temporaryFailed, trkHist, limHist>>
reqVars   == <<pc, req, rt, resp, reqCalls, lastUp, nreq>>
startVars == <<boot, keySources, apiKey>>
poolVars  == <<cacheFile, poolHist>>
concVars  == <<handlers, held, upHist, clock>>
vars      == <<now, storeVars, cfgVars, startVars, poolVars, concVars, trackVars, reqVars>>

---------------------------------------------------------------------------
(* Bounds *)

TicksPerSec == 2
MaxTime     == 3
StoreMaxTime == 8
HandlerMaxTime == 2
MaxMarks    == 6
MaxRequests == 2
MaxChunks   == 2
NumHandlers == 2

(* Configured cooldowns, in seconds *)
DefaultCooldownChoices   == {0, 2}
RateLimitCooldownChoices == {1}

---------------------------------------------------------------------------
(* Strings *)

PA == <<"p", "/", "a">>
PB == <<"p", "/", "b">>
Models == {PA, PB}

Max(S) == CHOOSE x \in S : \A y \in S : y <= x

\* strings.Contains(s, sub)
Contains(s, sub) ==
    \E i \in 0..(Len(s) - Len(sub)) : SubSeq(s, i + 1, i + Len(sub)) = sub

\* parts := strings.Split(m, "/"); parts[len(parts)-1]
displayNameOf(m) ==
    LET slashes == {i \in 1..Len(m) : m[i] = "/"}
    IN  IF slashes = {} THEN m ELSE SubSeq(m, Max(slashes) + 1, Len(m))

---------------------------------------------------------------------------
(* Failure store *)

NoRow == [absent |-> TRUE]

Row(at, type, count) == [failed_at |-> at, failure_type |-> type, failure_count |-> count]

\* time.Now().Unix(): the clock truncated to whole seconds
UnixSeconds(t) == t \div TicksPerSec

\* time.Unix(ts, 0) on the clock
TimeOfUnix(ts) == ts * TicksPerSec

\* variant: no cap, the first argument is returned
min_First(a, b) == a

min(a, b) == IF a < b THEN a ELSE b

\* variant: the upsert leaves failed_at of an existing row as it was
MarkFailureWithType_StaleFailedAt(f, m, failureType, t) ==
    [f EXCEPT ![m] =
        IF f[m] = NoRow
        THEN Row(UnixSeconds(t), failureType, 1)
        ELSE Row(f[m].failed_at, failureType, f[m].failure_count + 1)]

\* variant: the statement replaces the row (INSERT OR REPLACE)
MarkFailureWithType_Replace(f, m, failureType, t) ==
    [f EXCEPT ![m] = Row(UnixSeconds(t), failureType, 1)]

\* INSERT ... ON CONFLICT(model) DO UPDATE ... failure_count=failure_count+1
MarkFailureWithType(f, m, failureType, t) ==
    [f EXCEPT ![m] =
        IF f[m] = NoRow
        THEN Row(UnixSeconds(t), failureType, 1)
        ELSE Row(UnixSeconds(t), failureType, f[m].failure_count + 1)]

\* variant: the mark carries the class rate_limit
MarkFailure_RateLimit(f, m, t) == MarkFailureWithType(f, m, "rate_limit", t)

\* FailureStore.MarkFailure
MarkFailure(f, m, t) == MarkFailureWithType(f, m, "general", t)

\* variant: the statement deletes the row (DELETE FROM failures WHERE model=?)
ClearFailure_Delete(f, m) == [f EXCEPT ![m] = NoRow]

\* UPDATE failures SET failure_count=0, failure_type='cleared' WHERE model=?
ClearFailure(f, m) ==
    [f EXCEPT ![m] =
        IF f[m] = NoRow THEN NoRow
        ELSE Row(f[m].failed_at, "cleared", 0)]

\* DELETE FROM failures
ResetAllFailures(f) == [m \in DOMAIN f |-> NoRow]

\* the cooldown ShouldSkip applies to a row
CooldownOf(row) ==
    IF row.failure_type = "rate_limit"
    THEN rateLimitCooldown
    ELSE IF row.failure_count > 1
         THEN defaultCooldown * min(row.failure_count, 5)
         ELSE defaultCooldown

ShouldSkip(f, m, t) ==
    IF f[m] = NoRow THEN FALSE
    ELSE (t - TimeOfUnix(f[m].failed_at)) < CooldownOf(f[m])

---------------------------------------------------------------------------
(* Initial values shared by the specifications *)

NoLimiter == [absent |-> TRUE]
Never == -1

IdleReq  == [kind |-> "none", stream |-> FALSE, model |-> <<>>, msgsEmpty |-> FALSE, start |-> 0]
IdleRt   == [full |-> <<>>, idx |-> 0, lastError |-> <<>>, wake |-> 0, model |-> <<>>]
IdleResp == [status |-> 0, error |-> <<>>, model |-> <<>>, frames |-> <<>>, recvError |-> FALSE, gone |-> FALSE]

InitConfig ==
    /\ defaultCooldown \in {c * TicksPerSec : c \in DefaultCooldownChoices}
    /\ rateLimitCooldown \in {c * TicksPerSec : c \in RateLimitCooldownChoices}
    /\ freeMode = TRUE

\* the goroutines gin runs the handlers in
Procs == 1..NumHandlers

\* a goroutine that serves no request
IdleHandler ==
    [pc |-> "idle", idx |-> 0, model |-> <<>>, branch |-> "none", wake |-> 0,
     err |-> <<>>, served |-> 0, entry |-> [at |-> Never], ret |-> Never]

NoUpHist == [last |-> Never, gap |-> Never]

NoTrkHist == [op |-> "none", model |-> <<>>, before |-> {}, result |-> FALSE]

NoLimHist == [op |-> "none"]

\* the serving state of a server that has answered nothing yet
ServingIdle ==
    /\ handlers = [p \in Procs |-> IdleHandler]
    /\ held = [p \in Procs |-> {}]
    /\ upHist = NoUpHist
    /\ clock = 0
    /\ modelNames = <<>>
    /\ failures = [m \in Models |-> NoRow]
    /\ stLast = [m \in Models |-> [op |-> "none", at |-> 0, class |-> "none", marks |-> 0]]
    /\ permanentFailed = {}
    /\ temporaryFailed = [m \in Models |-> Never]
    /\ trkHist = NoTrkHist
    /\ limHist = NoLimHist
    /\ limiters = [m \in Models |-> NoLimiter]
    /\ lastGlobal = Never
    /\ pc = "idle"
    /\ req = IdleReq
    /\ rt = IdleRt
    /\ resp = IdleResp
    /\ reqCalls = <<>>
    /\ lastUp = [class |-> [m \in Models |-> "none"], at |-> Never]
    /\ nreq = 0

\* an unset flag, environment variable or config entry reads as ""
NoKey == ""
NoKeySources == [flag |-> NoKey, envViper |-> NoKey, envRouter |-> NoKey,
                 envOpenrouter |-> NoKey, config |-> NoKey]

\* the start-up is over and is not looked at
NoFile == [exists |-> FALSE]
NoPoolHist == [path |-> "none"]

\* no pool cache is looked at
PoolIdle ==
    /\ cacheFile = NoFile
    /\ poolHist = NoPoolHist

StartupDone ==
    /\ boot = "serving"
    /\ keySources = NoKeySources
    /\ apiKey = NoKey
    /\ PoolIdle

InitCommon ==
    /\ now = 0
    /\ InitConfig
    /\ ServingIdle
    /\ StartupDone


\* the clock advances.  No step taken at "route" or "streaming" reads or
\* records the clock, so time passing there is taken at the next step.
TickUpTo(bound) ==
    /\ now < bound
    /\ pc \notin {"route", "streaming"}
    /\ now' = now + 1
    /\ UNCHANGED <<storeVars, cfgVars, startVars, poolVars, concVars, trackVars, reqVars>>

---------------------------------------------------------------------------
(* The failure store on its own: its public operations called in any order *)

InitStore ==
    /\ InitCommon
    /\ freeModels = <<PA, PB>>
    /\ modelFilter = {}

StoreMark(m, c) ==
    /\ IF failures[m] = NoRow THEN TRUE ELSE failures[m].failure_count < MaxMarks
    /\ failures' = MarkFailureWithType(failures, m, c, now)
    /\ stLast' = [stLast EXCEPT ![m] = [op |-> "mark", at |-> now, class |-> c,
                                         marks |-> @.marks + 1]]
    /\ UNCHANGED <<now, cfgVars, startVars, poolVars, concVars, trackVars, reqVars>>

StoreClear(m) ==
    /\ failures' = ClearFailure(failures, m)
    /\ stLast' = [stLast EXCEPT ![m] = [op |-> "clear", at |-> now, class |-> "none",
                                         marks |-> 0]]
    /\ UNCHANGED <<now, cfgVars, startVars, poolVars, concVars, trackVars, reqVars>>

StoreReset ==
    /\ failures' = ResetAllFailures(failures)
    /\ stLast' = [m \in Models |-> [op |-> "reset", at |-> now, class |-> "none", marks |-> 0]]
    /\ UNCHANGED <<now, cfgVars, startVars, poolVars, concVars, trackVars, reqVars>>

StoreMarkAny == \E m \in Models, c \in {"general", "rate_limit"} : StoreMark(m, c)

StoreClearAny == \E m \in Models : StoreClear(m)

StoreTick == TickUpTo(StoreMaxTime)

NextStore == StoreTick \/ StoreMarkAny \/ StoreClearAny \/ StoreReset

SpecStore == InitStore /\ [][NextStore]_vars

---------------------------------------------------------------------------
(* Error messages and their classification *)

LowerWord(w) ==
    CASE w = "Too" -> "too"
      [] w = "Many" -> "many"
      [] w = "Requests" -> "requests"
      [] w = "Not" -> "not"
      [] w = "Found" -> "found"
      [] OTHER -> w

\* strings.ToLower
ToLower(s) == [i \in DOMAIN s |-> LowerWord(s[i])]

RateLimitPhrases ==
    { <<"rate", "limit">>, <<"429">>, <<"too", "many", "requests">>, <<"quota", "exceeded">> }

PermanentPhrases ==
    { <<"404">>, <<"not", "found">>, <<"no", "endpoints", "found">>,
      <<"model", "not", "available">>, <<"model", "does", "not", "exist">> }

NoError == <<>>

isRateLimitError(err) ==
    IF err = NoError THEN FALSE
    ELSE \E ph \in RateLimitPhrases : Contains(ToLower(err), ph)

\* variant: no error is permanent
isPermanentError_Never(err) == FALSE

isPermanentError(err) ==
    IF err = NoError THEN FALSE
    ELSE \E ph \in PermanentPhrases : Contains(ToLower(err), ph)

\* what upstream may answer to a chat call that fails
ErrRateLimit == <<"429", "Too", "Many", "Requests">>
ErrNotFound  == <<"Model", "Not", "Found">>
ErrTimeout   == <<"context", "deadline", "exceeded">>
ErrQuota404  == <<"404", "quota", "exceeded">>
UpstreamErrors == {ErrRateLimit, ErrNotFound, ErrTimeout, ErrQuota404}

ErrMessagesEmpty == <<"messages", "cannot", "be", "empty">>

\* fmt.Errorf("chat completion failed: %w") / ("stream creation failed: %w")
ProviderError(stream, err) ==
    IF stream THEN <<"stream", "creation", "failed:">> \o err
    ELSE <<"chat", "completion", "failed:">> \o err

ErrNoFreeModels == <<"no", "free", "models", "available">>

AllModelsFailed(err) == <<"all", "models", "failed:">> \o err

---------------------------------------------------------------------------
(* Per-model rate limiter *)

BaseDelayUs == 100000
MaxDelayUs  == 10000000
TickUs      == 1000000 \div TicksPerSec

\* samples of time.Now().UnixNano()%100
JitterSamples == {0, 99}

NewRateLimiter == [lastRequestTime |-> Never, backoffUntil |-> Never, failureCount |-> 0]

RECURSIVE Pow2(_)
Pow2(n) == IF n <= 0 THEN 1 ELSE 2 * Pow2(n - 1)

\* the float-to-Duration conversion truncates towards zero
TruncDiv(a, b) == IF a >= 0 THEN a \div b ELSE -((-a) \div b)

\* time.Duration is an int64 of nanoseconds
DurationBits == 63

\* float64(r.baseDelay) * math.Pow(2, failureCount-1) is 2^63 ns or more: the
\* conversion time.Duration(...) cannot represent it.  baseDelay * 2^k < 2^63
\* is baseDelay < 2^(63-k), and baseDelay is below 2^31.
ConversionOverflows(failureCount) ==
    LET bits == DurationBits - (failureCount - 1)
    IN  IF bits > 30 THEN FALSE
        ELSE IF bits <= 0 THEN TRUE
        ELSE BaseDelayUs * 1000 >= Pow2(bits)

\* what the conversion of a float64 that int64 cannot represent gives: the
\* language leaves it to the implementation.  "min": the smallest int64
\* (amd64); "max": the largest (arm64).
ConversionOutcomes == {"min", "max"}

\* a duration too long for the clocks here stands for every duration of
\* 2^62 ns or more, in microseconds
FarUs == 10 * MaxDelayUs

\* baseDelay * 2^(failureCount-1) in microseconds, doubled no further once
\* it is above maxDelay
RECURSIVE RawDelayUs(_)
RawDelayUs(failureCount) ==
    IF failureCount <= 1 THEN BaseDelayUs
    ELSE LET prev == RawDelayUs(failureCount - 1)
         IN  IF prev > MaxDelayUs THEN prev ELSE 2 * prev

\* RateLimiter.calculateBackoff, in microseconds, r = UnixNano%100, conv the
\* outcome of a conversion that overflows.  With "min" the comparison with
\* maxDelay fails, the jitter is a quarter of (0.5 - r/100) times the
\* smallest int64, and backoff += jitter wraps around to a duration of more
\* than 2^62 ns when that jitter is negative (r < 50), and stays below
\* -2^62 ns otherwise.
calculateBackoff(failureCount, r, conv) ==
    IF ConversionOverflows(failureCount) /\ conv = "min"
    THEN IF r < 50 THEN FarUs ELSE -FarUs
    ELSE LET raw     == RawDelayUs(failureCount)
             backoff == IF ConversionOverflows(failureCount) \/ raw > MaxDelayUs
                        THEN MaxDelayUs ELSE raw
             jitter  == TruncDiv(backoff * (50 - r), 400)
         IN  backoff + jitter

\* time.Now().Add(backoffDuration) on the tick clock: the first tick at
\* which time.Now() is certainly not before backoffUntil any more
BackoffUntilChoices(failureCount, t) ==
    { t + ((calculateBackoff(failureCount, r, conv) + TickUs - 1) \div TickUs) :
        r \in JitterSamples, conv \in ConversionOutcomes }

\* RateLimiter.RecordFailure, bu the value time.Now().Add(backoff) takes
RecordFailure(l, err, bu) ==
    [l EXCEPT !.failureCount = @ + 1,
              !.backoffUntil = IF isRateLimitError(err) THEN bu ELSE @]

MaxRetries == 3

\* RateLimiter.ShouldRetry
ShouldRetry(l) == l.failureCount < MaxRetries

\* RateLimiter.RecordSuccess
RecordSuccess(l) == [l EXCEPT !.failureCount = 0, !.backoffUntil = Never]

\* GlobalRateLimiter.GetLimiter
GetLimiter(lims, m) ==
    IF lims[m] = NoLimiter THEN [lims EXCEPT ![m] = NewRateLimiter] ELSE lims

---------------------------------------------------------------------------
(* Routing engine *)

\* variant: a name passes a non-empty filter only as an entry of its own
isModelInFilter_ExactEntry(modelName) ==
    IF modelFilter = {} THEN TRUE
    ELSE modelName \in modelFilter

\* Server.isModelInFilter
isModelInFilter(modelName) ==
    IF modelFilter = {} THEN TRUE
    ELSE \E pattern \in modelFilter : Contains(modelName, pattern)

\* Server.contains
contains(slice, item) == \E i \in 1..Len(slice) : slice[i] = item

\* variant: the match is taken whatever the filter says
resolveDisplayNameToFullModel_NoFilter(displayName) ==
    LET hits == {i \in 1..Len(freeModels) : displayNameOf(freeModels[i]) = displayName}
    IN  IF hits = {} THEN displayName
        ELSE freeModels[CHOOSE i \in hits : \A j \in hits : i <= j]

\* Server.resolveDisplayNameToFullModel
resolveDisplayNameToFullModel(displayName) ==
    LET hits == {i \in 1..Len(freeModels) :
                    /\ displayNameOf(freeModels[i]) = displayName
                    /\ isModelInFilter(displayName)}
    IN  IF hits = {} THEN displayName
        ELSE freeModels[CHOOSE i \in hits : \A j \in hits : i <= j]

\* PermanentFailureTracker.IsPermanentlyFailed
IsPermanentlyFailed(perm, m) == m \in perm

\* variant: the map is made anew with the one model
MarkPermanentFailure_Only(perm, m) == {m}

\* PermanentFailureTracker.MarkPermanentFailure
MarkPermanentFailure(perm, m) == perm \cup {m}

\* variant: the sweep does not consult the failure store
SweepSkips_NoStore(m, perm, fails) ==
    \/ IsPermanentlyFailed(perm, m)
    \/ ~isModelInFilter(displayNameOf(m))

\* the three `continue' tests at the head of the sweep loop
SweepSkips(m, perm, fails) ==
    \/ IsPermanentlyFailed(perm, m)
    \/ ~isModelInFilter(displayNameOf(m))
    \/ ShouldSkip(fails, m, now)

\* variant: the loop goes to the last pool entry it does not skip
NextCandidate_Last(i, perm, fails) ==
    LET ok == {j \in i..Len(freeModels) : ~SweepSkips(freeModels[j], perm, fails)}
    IN  IF ok = {} THEN Len(freeModels) + 1
        ELSE CHOOSE j \in ok : \A k \in ok : j >= k

\* index of the first pool entry at or after i that the loop does not skip
NextCandidate(i, perm, fails) ==
    LET ok == {j \in i..Len(freeModels) : ~SweepSkips(freeModels[j], perm, fails)}
    IN  IF ok = {} THEN Len(freeModels) + 1
        ELSE CHOOSE j \in ok : \A k \in ok : j <= k

\* status written by the handler when getFree...ForModel returns an error
ExhaustedStatus(kind, stream) ==
    IF kind \in {"chat", "generate"} /\ ~stream THEN 503 ELSE 500

\* the handler has no usable answer: c.JSON(status, err.Error())
RouteError(err) ==
    /\ pc' = "done"
    /\ resp' = [resp EXCEPT !.status = ExhaustedStatus(req.kind, req.stream),
                            !.error = err]

\* the handler got a response or a stream from model m
RouteSuccess(m) ==
    /\ pc' = IF req.stream THEN "streaming" ELSE "done"
    /\ resp' = [resp EXCEPT !.status = 200, !.model = m]

---------------------------------------------------------------------------
(* One request at a time through the chat handlers, in free mode.  A        *)
(* handler is cut into steps at its suspension points: the upstream call,   *)
(* the sleeps and stream.Recv(); the clock may advance between the steps.   *)

Kinds == {"chat", "generate", "openai"}
RequestNames == { <<"a">>, PA, <<"u">>, <<>> }
PoolChoices == { <<PA>>, <<PA, PB>> }
FilterChoices == { {}, {<<"a">>} }

\* time.Sleep(500 * time.Millisecond) in ticks, rounded up
SleepTicks == (500000 + TickUs - 1) \div TickUs

Init ==
    /\ InitCommon
    /\ freeModels \in PoolChoices
    /\ modelFilter \in FilterChoices

\* handleChat and handleGenerate (binding:"required") answer 400 before
\* routing; handleOpenAIChat checks nothing beyond the JSON syntax
RejectedByHandler(kind, model, msgsEmpty) ==
    /\ kind \in {"chat", "generate"}
    /\ (model = <<>> \/ msgsEmpty)

\* an upstream call goes on the wire unless the provider rejects the
\* arguments first (empty messages)
Issued(calls, phase, m) ==
    IF req.msgsEmpty THEN calls
    ELSE Append(calls, [phase |-> phase, model |-> m, at |-> now,
                        out |-> <<"pending">>, ret |-> Never])

\* history: the call in flight has returned `out'
Returned(calls, out) ==
    IF req.msgsEmpty THEN calls
    ELSE [calls EXCEPT ![Len(calls)].out = out, ![Len(calls)].ret = now]

\* getFreeChat / getFreeStream from the head of the loop at pool index i, up
\* to the next suspension point or the end of the pool
SweepFrom(i, lastError, lims, fails, perm, calls) ==
    LET j == NextCandidate(i, perm, fails) IN
    /\ failures' = fails
    /\ permanentFailed' = perm
    /\ IF j > Len(freeModels)
       THEN /\ RouteError(IF lastError # NoError THEN AllModelsFailed(lastError)
                          ELSE ErrNoFreeModels)
            /\ rt' = [rt EXCEPT !.idx = j, !.lastError = lastError]
            /\ limiters' = lims
            /\ reqCalls' = calls
            /\ UNCHANGED lastGlobal
       ELSE LET m  == freeModels[j]
                l1 == GetLimiter(lims, m)
            IN  IF now < l1[m].backoffUntil
                THEN \* limiter.Wait() sleeps until backoffUntil and returns
                     /\ pc' = "backoffWait"
                     /\ rt' = [rt EXCEPT !.idx = j, !.lastError = lastError,
                                         !.model = m, !.wake = l1[m].backoffUntil]
                     /\ limiters' = l1
                     /\ reqCalls' = calls
                     /\ UNCHANGED <<lastGlobal, resp, temporaryFailed, trkHist, limHist>>
                ELSE \* limiter.Wait() stamps lastRequestTime, WaitGlobal()
                     \* stamps lastGlobal, then the provider is called
                     /\ pc' = "sweepCall"
                     /\ rt' = [rt EXCEPT !.idx = j, !.lastError = lastError, !.model = m]
                     /\ limiters' = [l1 EXCEPT ![m].lastRequestTime = now]
                     /\ lastGlobal' = now
                     /\ reqCalls' = Issued(calls, "sweep", m)
                     /\ UNCHANGED resp

\* a request arrives: handleChat / handleGenerate / handleOpenAIChat parse
\* and validate it
Request(kind, stream, model, msgsEmpty, limit) ==
    /\ pc \in {"idle", "done"}
    /\ nreq < limit
    /\ nreq' = nreq + 1
    /\ req' = [kind |-> kind, stream |-> stream, model |-> model,
               msgsEmpty |-> msgsEmpty, start |-> now]
    /\ rt' = IdleRt
    /\ reqCalls' = <<>>
    /\ IF RejectedByHandler(kind, model, msgsEmpty)
       THEN /\ pc' = "done"
            /\ resp' = [IdleResp EXCEPT !.status = 400]
       ELSE /\ pc' = "route"
            /\ resp' = IdleResp
    /\ UNCHANGED <<now, storeVars, cfgVars, startVars, poolVars, concVars, trackVars, lastUp>>

\* requests to /api/chat, several in a row
RequestAny ==
    \E stream \in BOOLEAN, model \in RequestNames, msgsEmpty \in BOOLEAN :
        Request("chat", stream, model, msgsEmpty, MaxRequests)

\* one request to any of the chat entry points
HandlerRequestAny ==
    \E kind \in Kinds, stream \in BOOLEAN, model \in RequestNames, msgsEmpty \in BOOLEAN :
        Request(kind, stream, model, msgsEmpty, 1)

\* getFreeChatForModel / getFreeStreamForModel up to the first suspension
\* point: the direct attempt if there is one, otherwise the sweep
GetFreeForModel ==
    /\ pc = "route"
    /\ LET fullModelName == resolveDisplayNameToFullModel(req.model) IN
       IF /\ (fullModelName # req.model \/ contains(freeModels, fullModelName))
          /\ ~ShouldSkip(failures, fullModelName, now)
       THEN /\ pc' = "directCall"
            /\ rt' = [rt EXCEPT !.full = fullModelName, !.model = fullModelName]
            /\ reqCalls' = Issued(reqCalls, "direct", fullModelName)
            /\ UNCHANGED <<failures, trackVars, resp>>
       ELSE SweepFrom(1, NoError, limiters, failures, permanentFailed, reqCalls)
    /\ UNCHANGED <<now, stLast, cfgVars, startVars, poolVars, concVars, req, lastUp, nreq, temporaryFailed, trkHist, limHist>>

\* what the provider call can return: "ok" or an error message
Outcomes ==
    IF req.msgsEmpty THEN {ErrMessagesEmpty}
    ELSE {<<"ok">>} \cup {ProviderError(req.stream, e) : e \in UpstreamErrors}

AnswerClass(out) ==
    IF out = <<"ok">> THEN "ok"
    ELSE IF isPermanentError(out) THEN "permanent"
    ELSE IF isRateLimitError(out) THEN "rate_limit"
    ELSE "general"

Answered(m, out) ==
    IF req.msgsEmpty THEN lastUp
    ELSE [lastUp EXCEPT !.class[m] = AnswerClass(out), !.at = now]

\* the direct attempt's provider call returns
DirectReturn(out) ==
    /\ pc = "directCall"
    /\ out \in Outcomes
    /\ lastUp' = Answered(rt.full, out)
    /\ IF out = <<"ok">>
       THEN /\ failures' = ClearFailure(failures, rt.full)
            /\ RouteSuccess(rt.full)
            /\ reqCalls' = Returned(reqCalls, out)
            /\ UNCHANGED <<trackVars, rt>>
       ELSE SweepFrom(1, NoError, limiters, MarkFailure(failures, rt.full, now),
                      permanentFailed, Returned(reqCalls, out))
    /\ UNCHANGED <<now, stLast, cfgVars, startVars, poolVars, concVars, req, nreq, temporaryFailed, trkHist, limHist>>

DirectReturnAny == \E out \in Outcomes : DirectReturn(out)

\* the failure branch of the sweep loop body for candidate m, then the loop
\* goes on
SweepFailure(m, err, bu) ==
    LET lims == [limiters EXCEPT ![m] = RecordFailure(@, err, bu)] IN
    IF isPermanentError(err)
    THEN SweepFrom(rt.idx + 1, err, lims, failures,
                   MarkPermanentFailure(permanentFailed, m), Returned(reqCalls, err))
    ELSE IF isRateLimitError(err)
    THEN \* time.Sleep(500 * time.Millisecond) before `continue'
         /\ failures' = MarkFailureWithType(failures, m, "rate_limit", now)
         /\ limiters' = lims
         /\ pc' = "sweepSleep"
         /\ rt' = [rt EXCEPT !.lastError = err, !.wake = now + SleepTicks]
         /\ reqCalls' = Returned(reqCalls, err)
         /\ UNCHANGED <<permanentFailed, lastGlobal, resp, temporaryFailed, trkHist, limHist>>
    ELSE SweepFrom(rt.idx + 1, err, lims, MarkFailure(failures, m, now),
                   permanentFailed, Returned(reqCalls, err))

\* the sweep's provider call for rt.model returns
SweepReturn(out) ==
    /\ pc = "sweepCall"
    /\ out \in Outcomes
    /\ lastUp' = Answered(rt.model, out)
    /\ IF out = <<"ok">>
       THEN /\ limiters' = [limiters EXCEPT ![rt.model] = RecordSuccess(@)]
            /\ failures' = ClearFailure(failures, rt.model)
            /\ RouteSuccess(rt.model)
            /\ reqCalls' = Returned(reqCalls, out)
            /\ UNCHANGED <<permanentFailed, lastGlobal, rt, temporaryFailed, trkHist, limHist>>
       ELSE \E bu \in BackoffUntilChoices(limiters[rt.model].failureCount + 1, now) :
                SweepFailure(rt.model, out, bu)
    /\ UNCHANGED <<now, stLast, cfgVars, startVars, poolVars, concVars, req, nreq, temporaryFailed, trkHist, limHist>>

SweepReturnAny == \E out \in Outcomes : SweepReturn(out)

\* the courtesy sleep after a rate-limit error is over
SweepSleepDone ==
    /\ pc = "sweepSleep"
    /\ now >= rt.wake
    /\ SweepFrom(rt.idx + 1, rt.lastError, limiters, failures, permanentFailed, reqCalls)
    /\ UNCHANGED <<now, stLast, cfgVars, startVars, poolVars, concVars, req, lastUp, nreq, temporaryFailed, trkHist, limHist>>

\* limiter.Wait() returns from its backoff sleep (without stamping
\* lastRequestTime); WaitGlobal() and the provider call follow
BackoffWaitDone ==
    /\ pc = "backoffWait"
    /\ now >= rt.wake
    /\ pc' = "sweepCall"
    /\ lastGlobal' = now
    /\ reqCalls' = Issued(reqCalls, "sweep", rt.model)
    /\ UNCHANGED <<now, storeVars, cfgVars, startVars, poolVars, concVars, permanentFailed, limiters, req, rt,
                   resp, lastUp, nreq, temporaryFailed, trkHist, limHist>>

---------------------------------------------------------------------------
(* Streaming handlers after the routing engine has returned a stream *)

Written(frame) == [resp EXCEPT !.frames = Append(@, frame)]

Chunks(frames) == Len(SelectSeq(frames, LAMBDA f : f = "chunk"))

\* stream.Recv() returns a chunk: every handler writes one frame
StreamChunk ==
    /\ pc = "streaming"
    /\ Chunks(resp.frames) < MaxChunks
    /\ resp' = Written("chunk")
    /\ UNCHANGED <<now, storeVars, cfgVars, startVars, poolVars, concVars, trackVars, pc, req, rt, reqCalls, lastUp, nreq>>

\* stream.Recv() returns io.EOF
\*   handleStreamingChat: break, then the done:true frame
\*   handleStreamingGenerate: break, then the done:true frame
\*   handleOpenAIStreaming: data: [DONE]
StreamEOF ==
    /\ pc = "streaming"
    /\ resp' = Written(IF req.kind = "openai" THEN "[DONE]" ELSE "done:true")
    /\ pc' = "done"
    /\ UNCHANGED <<now, storeVars, cfgVars, startVars, poolVars, concVars, trackVars, req, rt, reqCalls, lastUp, nreq>>

\* variant: a Recv error is recorded against the serving model
StreamError_MarksFailure ==
    /\ pc = "streaming"
    /\ resp' = [(CASE req.kind = "chat" -> Written("error")
                   [] req.kind = "generate" -> Written("done:true")
                   [] OTHER -> resp) EXCEPT !.recvError = TRUE]
    /\ pc' = "done"
    /\ failures' = MarkFailure(failures, resp.model, now)
    /\ UNCHANGED <<now, stLast, cfgVars, startVars, poolVars, concVars, trackVars, req, rt, reqCalls, lastUp, nreq>>

\* stream.Recv() returns an error other than io.EOF
\*   handleStreamingChat: an {"error": ...} line, return
\*   handleStreamingGenerate: break, then the done:true frame
\*   handleOpenAIStreaming: break
StreamError ==
    /\ pc = "streaming"
    /\ resp' = [(CASE req.kind = "chat" -> Written("error")
                   [] req.kind = "generate" -> Written("done:true")
                   [] OTHER -> resp) EXCEPT !.recvError = TRUE]
    /\ pc' = "done"
    /\ UNCHANGED <<now, storeVars, cfgVars, startVars, poolVars, concVars, trackVars, req, rt, reqCalls, lastUp, nreq>>

Tick == TickUpTo(MaxTime)

HandlerTick == TickUpTo(HandlerMaxTime)

\* the client goes away in mid-stream; no handler looks at the request
\* context, so the Recv loop goes on and its writes are lost
ClientDisconnect ==
    /\ pc = "streaming"
    /\ ~resp.gone
    /\ resp' = [resp EXCEPT !.gone = TRUE]
    /\ UNCHANGED <<now, storeVars, cfgVars, startVars, poolVars, concVars, trackVars, pc, req, rt, reqCalls, lastUp, nreq>>

\* BackoffWaitDone is not among the steps: a limiter's backoff (at most
\* 11.25 s, and 112.5 ms after a first failure) is over before the courtesy
\* sleep and the store's cooldown let a later sweep reach the same model, so
\* "backoffWait" is not reached within the bounds (NoBackoffWait).
Next ==
    \/ Tick
    \/ RequestAny
    \/ GetFreeForModel
    \/ DirectReturnAny
    \/ SweepReturnAny
    \/ SweepSleepDone
    \/ StreamChunk
    \/ StreamEOF
    \/ StreamError

Spec == Init /\ [][Next]_vars

NextHandlers ==
    \/ HandlerTick
    \/ HandlerRequestAny
    \/ GetFreeForModel
    \/ DirectReturnAny
    \/ SweepReturnAny
    \/ SweepSleepDone
    \/ StreamChunk
    \/ StreamEOF
    \/ StreamError
    \/ ClientDisconnect

SpecHandlers == Init /\ [][NextHandlers]_vars

NoBackoffWait == pc # "backoffWait"

---------------------------------------------------------------------------
(* Model listings in free mode *)

RECURSIVE ListFrom(_)
\* the loop of handleListModels / handleOpenAIModels over s.freeModels
ListFrom(i) ==
    IF i > Len(freeModels) THEN <<>>
    ELSE LET freeModel   == freeModels[i]
             displayName == displayNameOf(freeModel)
         IN  IF ShouldSkip(failures, freeModel, now) \/ ~isModelInFilter(displayName)
             THEN ListFrom(i + 1)
             ELSE <<displayName>> \o ListFrom(i + 1)

\* GET /api/tags: the "name" fields of the answer
handleListModels == ListFrom(1)

\* GET /v1/models: the "id" fields of the answer
handleOpenAIModels == ListFrom(1)

Range(seq) == {seq[i] : i \in DOMAIN seq}

---------------------------------------------------------------------------
(* Failure store: claims C1 and C2, checked under SpecStore *)

\* C1 (as stated): after ClearFailure(m) has completed and until the next
\* operation on m, ShouldSkip(m) is false, whatever the row held before.
C1_ClearedIsRoutable ==
    \A m \in Models : stLast[m].op = "clear" => ~ShouldSkip(failures, m, now)

\* the cooldown the claim names, from the class given to the mark and the
\* stored count
ClaimedCooldown(class, count) ==
    IF class = "rate_limit" THEN rateLimitCooldown
    ELSE IF count > 1 THEN defaultCooldown * (IF count < 5 THEN count ELSE 5)
    ELSE defaultCooldown

\* C2 (as stated): after a mark at time t1 with no later operation on m,
\* ShouldSkip(m) is true exactly at the times in [t1, t1 + cooldown); a model
\* without a row is never skipped.
C2_SkipWindowFromMarkTime ==
    \A m \in Models :
        /\ failures[m] = NoRow => ~ShouldSkip(failures, m, now)
        /\ stLast[m].op = "mark" =>
              (ShouldSkip(failures, m, now) <=>
                  now < stLast[m].at
                        + ClaimedCooldown(stLast[m].class, failures[m].failure_count))

\* t1 truncated to whole seconds, on the clock
WholeSecond(t) == (t \div TicksPerSec) * TicksPerSec

\* C2 (amended): the window is measured from failed_at, i.e. from t1 truncated
\* to whole seconds: ShouldSkip(m) is true exactly at the times in
\* [t1, floor(t1) + cooldown); a model without a row is never skipped.
C2_SkipWindowFromFailedAt ==
    \A m \in Models :
        /\ failures[m] = NoRow => ~ShouldSkip(failures, m, now)
        /\ stLast[m].op = "mark" =>
              (ShouldSkip(failures, m, now) <=>
                  now < WholeSecond(stLast[m].at)
                        + ClaimedCooldown(stLast[m].class, failures[m].failure_count))

\* a mark made off a whole second, observed in the last fraction of the
\* claimed window, where the model is already routable again
C2_Witness ==
    \E m \in Models :
        /\ stLast[m].op = "mark"
        /\ stLast[m].at # WholeSecond(stLast[m].at)
        /\ ClaimedCooldown(stLast[m].class, failures[m].failure_count) > 0
        /\ now >= WholeSecond(stLast[m].at)
                  + ClaimedCooldown(stLast[m].class, failures[m].failure_count)
        /\ now < stLast[m].at
                 + ClaimedCooldown(stLast[m].class, failures[m].failure_count)
        /\ ~ShouldSkip(failures, m, now)

---------------------------------------------------------------------------
(* Routing engine and handlers: claims C3 .. C10 *)

CallInFlight == pc \in {"directCall", "sweepCall"} /\ ~req.msgsEmpty

\* C3 (as stated): no upstream chat or chat-stream call is ever issued to a
\* model that is in the permanent set, in the direct attempt and in the sweep.
C3_NoCallToPermanentlyFailed ==
    CallInFlight => ~IsPermanentlyFailed(permanentFailed, rt.model)

\* C4 (as stated): a model of the permanent set is in no /api/tags or
\* /v1/models listing.
C4_PermanentNotListed ==
    \A m \in permanentFailed :
        /\ displayNameOf(m) \notin Range(handleListModels)
        /\ displayNameOf(m) \notin Range(handleOpenAIModels)

RateLimited(out) == out # <<"ok">> /\ out # <<"pending">> /\ isRateLimitError(out)

\* C5 (as stated): pool [p/a], upstream answers p/a with a rate-limit error.
\* (a) a request whose upstream calls were all answered so ends in pool
\* exhaustion; (b) a request repeated within the rate-limit cooldown issues
\* no upstream call; (c) a request repeated after the rate-limit cooldown
\* does call upstream again.
C5_RateLimitCooldownScenario ==
    freeModels = <<PA>> /\ resp.status # 400 =>
        /\ (pc = "done" /\ reqCalls # <<>>
               /\ (\A i \in DOMAIN reqCalls : RateLimited(reqCalls[i].out)))
             => resp.error # NoError
        /\ (nreq = 2 /\ lastUp.class[PA] = "rate_limit" /\ CallInFlight
               /\ Len(reqCalls) = 1)
             => req.start >= WholeSecond(lastUp.at) + rateLimitCooldown
        /\ (nreq = 2 /\ lastUp.class[PA] = "rate_limit" /\ pc = "done"
               /\ reqCalls = <<>>)
             => (resp.error # NoError /\ req.start < lastUp.at + rateLimitCooldown)

TerminalFrame(kind) == IF kind = "openai" THEN "[DONE]" ELSE "done:true"

\* C6 (as stated): a stream ended by a non-EOF Recv error after at least one
\* chunk still ends with the terminal frame of its dialect.
C6_TerminalFrameAfterRecvError ==
    (pc = "done" /\ resp.recvError /\ Chunks(resp.frames) >= 1) =>
        resp.frames[Len(resp.frames)] = TerminalFrame(req.kind)

\* C7: once the routing engine has handed a stream to the handler, no step
\* of that request changes the failure store, the permanent set or any
\* limiter, issues another upstream call or changes the serving model.
C7_StreamingLeavesRoutingStateAlone ==
    [][pc = "streaming" =>
          /\ failures' = failures
          /\ permanentFailed' = permanentFailed
          /\ limiters' = limiters
          /\ lastGlobal' = lastGlobal
          /\ reqCalls' = reqCalls
          /\ resp'.model = resp.model]_vars

\* a stream that was cut by the client and then ended by a Recv error
C7_Witness ==
    /\ pc = "done"
    /\ resp.recvError
    /\ resp.gone
    /\ Chunks(resp.frames) >= 1

\* C8 (as stated): pool exhaustion is answered with status 503 by every chat
\* entry point.
C8_ExhaustionIs503 ==
    (pc = "done" /\ resp.error # NoError) => resp.status = 503

\* C9 (as stated): the error of a failed request wraps the last upstream
\* error of that request whenever an upstream call was made in it; "no free
\* models available" is returned only if none was made.
C9_ErrorWrapsLastUpstreamError ==
    (pc = "done" /\ resp.error # NoError /\ reqCalls # <<>>) =>
        /\ resp.error # ErrNoFreeModels
        /\ resp.error = AllModelsFailed(reqCalls[Len(reqCalls)].out)

CallsTo(m) == {i \in DOMAIN reqCalls : reqCalls[i].model = m}

\* C10 (as stated): within one request every model receives at most one
\* upstream call.
C10_EachModelCalledOnce ==
    \A m \in Models : Cardinality(CallsTo(m)) <= 1

\* C10 (amended): within one request there is at most one direct call, each
\* pool entry is called at most once in the sweep, so at most |pool| + 1
\* calls are made; the model of the direct attempt is called again in the
\* sweep only if the base cooldown has already elapsed since the second in
\* which its direct failure was recorded (always so with a cooldown of 0).
C10_CallsBoundedBySweepAndDirect ==
    /\ Len(reqCalls) <= Len(freeModels) + 1
    /\ \A i, j \in DOMAIN reqCalls :
          i < j =>
            /\ reqCalls[j].phase = "sweep"
            /\ reqCalls[i].model = reqCalls[j].model =>
                  /\ reqCalls[i].phase = "direct"
                  /\ reqCalls[j].at - WholeSecond(reqCalls[i].ret) >= defaultCooldown

\* the direct attempt's model called a second time in the sweep
C10_Witness ==
    /\ Len(reqCalls) >= 2
    /\ reqCalls[1].phase = "direct"
    /\ \E j \in 2..Len(reqCalls) : reqCalls[j].model = reqCalls[1].model

InvalidChatRequest ==
    /\ req.kind \in {"chat", "openai"}
    /\ (req.model = <<>> \/ req.msgsEmpty)

\* C12 (as stated): a chat request without a model name or with an empty
\* messages list is answered 400 and no upstream call is made for it, on
\* /api/chat and on /v1/chat/completions.
C12_InvalidRequestIs400 ==
    InvalidChatRequest =>
        /\ reqCalls = <<>>
        /\ pc = "done" => resp.status = 400

---------------------------------------------------------------------------
(* Start-up: the API key (cmd/root.go getAPIKey, cmd/start.go runStart)     *)

KeyChoices == {NoKey, "k1", "k2"}

\* viper.GetString("openrouter.api_key") as init/initConfig set viper up:
\* the bound --api-key flag when given, then AutomaticEnv with prefix
\* OLLAMA_ROUTER and no key replacer (it reads the variable named
\* OLLAMA_ROUTER_OPENROUTER.API_KEY, with the dot), then the config file,
\* then the flag's default ""
viperGetString(src) ==
    IF src.flag # NoKey THEN src.flag
    ELSE IF src.envViper # NoKey THEN src.envViper
    ELSE IF src.config # NoKey THEN src.config
    ELSE NoKey

getAPIKey(src) ==
    LET key == viperGetString(src) IN
    IF key # NoKey THEN key
    ELSE IF src.envRouter # NoKey THEN src.envRouter
    ELSE IF src.envOpenrouter # NoKey THEN src.envOpenrouter
    ELSE NoKey

InitKey ==
    /\ now = 0
    /\ defaultCooldown = 0
    /\ rateLimitCooldown = 0
    /\ freeModels = <<>>
    /\ modelFilter = {}
    /\ freeMode = TRUE
    /\ ServingIdle
    /\ boot = "start"
    /\ apiKey = NoKey
    /\ PoolIdle
    /\ keySources \in [flag : KeyChoices, envViper : {NoKey, "k1"}, envRouter : KeyChoices,
                        envOpenrouter : KeyChoices, config : KeyChoices]

\* runStart up to server.New: exits when no key is found
runStart ==
    /\ boot = "start"
    /\ apiKey' = getAPIKey(keySources)
    /\ boot' = IF getAPIKey(keySources) = NoKey THEN "exit" ELSE "keyed"
    /\ UNCHANGED <<now, storeVars, cfgVars, keySources, poolVars, concVars, trackVars, reqVars>>

NextKey == runStart

SpecKey == InitKey /\ [][NextKey]_vars

\* the key the documented precedence gives
DocumentedKey(src) ==
    IF src.flag # NoKey THEN src.flag
    ELSE IF src.envRouter # NoKey THEN src.envRouter
    ELSE IF src.envOpenrouter # NoKey THEN src.envOpenrouter
    ELSE src.config

\* C19 (as stated): the key runStart works with is the value of the first
\* source that is set, in the order --api-key, OLLAMA_ROUTER_OPENROUTER_API_KEY,
\* OPENROUTER_API_KEY, config file.
C19_KeyPrecedence ==
    (boot \in {"keyed", "exit"} /\ keySources.envViper = NoKey) =>
        apiKey = DocumentedKey(keySources)

---------------------------------------------------------------------------
(* Free-model pool manager: fetchFreeModels, ensureFreeModelFile and        *)
(* initFreeMode, over restarts of the process.  The clock of this part      *)
(* counts fractions of the cache TTL; TOOL_USE_ONLY is not set.             *)

MaxCatalog    == 2
MaxBoots      == 2
PoolMaxTime   == 3
CacheTTLTicks == 2

Min(S) == CHOOSE x \in S : \A y \in S : x <= y

RECURSIVE Join_NoSeparator(_, _)
RECURSIVE Join(_, _)
RECURSIVE Split(_, _)

\* variant: the entries are written one after the other, nothing between
Join_NoSeparator(list, sep) ==
    IF list = <<>> THEN <<>>
    ELSE list[1] \o Join_NoSeparator(Tail(list), sep)

\* strings.Join(list, sep)
Join(list, sep) ==
    IF list = <<>> THEN <<>>
    ELSE IF Len(list) = 1 THEN list[1]
    ELSE list[1] \o sep \o Join(Tail(list), sep)

\* strings.Split(s, sep), sep one character
Split(s, sep) ==
    LET hits == {i \in 1..Len(s) : s[i] = sep[1]} IN
    IF hits = {} THEN <<s>>
    ELSE <<SubSeq(s, 1, Min(hits) - 1)>> \o Split(SubSeq(s, Min(hits) + 1, Len(s)), sep)

Whitespace == {" ", "\t", "\r", "\n"}

\* strings.TrimSpace
TrimSpace(s) ==
    LET keep == {i \in 1..Len(s) : s[i] \notin Whitespace} IN
    IF keep = {} THEN <<>> ELSE SubSeq(s, Min(keep), Max(keep))

\* the read loop of ensureFreeModelFile: split by "\n", trim, drop empties
Lines(data) ==
    LET parts == Split(data, <<"\n">>)
        trimmed == [i \in 1..Len(parts) |-> TrimSpace(parts[i])]
    IN  SelectSeq(trimmed, LAMBDA line : line # <<>>)

\* model identifiers the upstream catalog may carry (vendor/name[:variant])
QCF == <<"q", "/", "c", ":", "f">>
IdChoices == {PA, PB, QCF}

\* one entry of orModels.Data, cut down to the fields fetchFreeModels reads
CatalogEntries ==
    [id : IdChoices, context_length : {1, 2}, top_provider : {0, 3},
     prompt : {"0"}, completion : {"0", "1"}]

\* the answers of GET /api/v1/models: lists of entries with distinct ids
CatalogChoices ==
    {cat \in UNION {[1..n -> CatalogEntries] : n \in 0..MaxCatalog} :
        \A i, j \in 1..Len(cat) : cat[i].id = cat[j].id => i = j}

\* ctx of an item: TopProvider.ContextLength, or ContextLength when that is 0
EffectiveContext(m) ==
    IF m.top_provider = 0 THEN m.context_length ELSE m.top_provider

\* the items of fetchFreeModels before the sort: free entries, catalog order
FreeItems(cat) ==
    LET free == SelectSeq(cat, LAMBDA m : m.prompt = "0" /\ m.completion = "0")
    IN  [i \in 1..Len(free) |-> [id |-> free[i].id, ctx |-> EffectiveContext(free[i])]]

\* variant: the sort puts the smallest context first
SortedOrders_Ascending(items) ==
    {[i \in 1..Len(items) |-> items[f[i]]] :
        f \in {g \in [1..Len(items) -> 1..Len(items)] :
                 /\ \A i, j \in 1..Len(items) : g[i] = g[j] => i = j
                 /\ \A i, j \in 1..Len(items) :
                        i < j => items[g[i]].ctx <= items[g[j]].ctx}}

\* sort.Slice(items, ctx >): some permutation in which no item comes before
\* one of larger ctx; the order of items of equal ctx is not determined
SortedOrders(items) ==
    {[i \in 1..Len(items) |-> items[f[i]]] :
        f \in {g \in [1..Len(items) -> 1..Len(items)] :
                 /\ \A i, j \in 1..Len(items) : g[i] = g[j] => i = j
                 /\ \A i, j \in 1..Len(items) :
                        i < j => items[g[i]].ctx >= items[g[j]].ctx}}

\* the id lists fetchFreeModels may return for a catalog
fetchFreeModels(cat) ==
    {[i \in 1..Len(sorted) |-> sorted[i].id] : sorted \in SortedOrders(FreeItems(cat))}

\* effective context length of every free id of a catalog
ContextOf(cat) ==
    LET items == FreeItems(cat)
    IN  [id \in {items[i].id : i \in 1..Len(items)} |->
            items[CHOOSE i \in 1..Len(items) : items[i].id = id].ctx]

\* what the upstream GET answers: a catalog, or an error (transport, status
\* or JSON)
UpstreamAnswers ==
    [ok : {TRUE}, data : CatalogChoices] \cup {[ok |-> FALSE, data |-> <<>>]}

NoContext == [id \in {} |-> 0]

\* os.Stat succeeds and time.Since(ModTime) < cacheTTL
CacheFresh(file, t) ==
    IF file.exists THEN t - file.mtime < CacheTTLTicks ELSE FALSE

\* variant: the fallback saves the lines it read, which renews the file
StaleFallback_Rewrites(file, t) ==
    IF file.exists
    THEN [models |-> Lines(file.data), ok |-> TRUE, path |-> "stale",
          file |-> [exists |-> TRUE, mtime |-> t,
                    data |-> Join(Lines(file.data), <<"\n">>)]]
    ELSE [models |-> <<>>, ok |-> FALSE, path |-> "fetchError", file |-> file]

\* ensureFreeModelFile after a failed fetch: the lines of the file if there
\* is one, else the fetch error
StaleFallback(file, t) ==
    IF file.exists
    THEN [models |-> Lines(file.data), ok |-> TRUE, path |-> "stale", file |-> file]
    ELSE [models |-> <<>>, ok |-> FALSE, path |-> "fetchError", file |-> file]

\* ensureFreeModelFile at time t: its possible results and the file it
\* leaves.  writeOk tells whether os.WriteFile succeeds (its error is
\* dropped); reading a file that exists is taken to succeed.
ensureFreeModelFile(file, t, upstream, writeOk) ==
    IF CacheFresh(file, t)
    THEN {[models |-> Lines(file.data), ok |-> TRUE, path |-> "cache", file |-> file]}
    ELSE IF ~upstream.ok
    THEN {StaleFallback(file, t)}
    ELSE {[models |-> ms, ok |-> TRUE, path |-> "fetch",
           file |-> IF writeOk
                    THEN [exists |-> TRUE, mtime |-> t, data |-> Join(ms, <<"\n">>)]
                    ELSE file] : ms \in fetchFreeModels(upstream.data)}

InitPool ==
    /\ now = 0
    /\ defaultCooldown = 0 /\ rateLimitCooldown = 0 /\ freeMode = TRUE
    /\ freeModels = <<>> /\ modelFilter = {}
    /\ ServingIdle
    /\ boot = "keyed" /\ keySources = NoKeySources /\ apiKey = "k1"
    /\ cacheFile = NoFile
    /\ poolHist = [path |-> "none", at |-> 0, before |-> NoFile, fetch |-> "none",
                   cacheList |-> <<>>, cacheContext |-> NoContext,
                   poolContext |-> NoContext, boots |-> 1]

\* Start in free mode: the pool is what ensureFreeModelFile returns; on its
\* error Start fails and the process exits.  poolHist keeps what the call
\* saw and, for the cache file and the pool, the list and the context
\* lengths of the fetch they come from.
initFreeMode ==
    /\ boot = "keyed"
    /\ \E upstream \in UpstreamAnswers, writeOk \in BOOLEAN :
         \E out \in ensureFreeModelFile(cacheFile, now, upstream, writeOk) :
            LET written == out.path = "fetch" /\ writeOk
                fetched == ContextOf(upstream.data)
            IN  /\ cacheFile' = out.file
                /\ freeModels' = out.models
                /\ boot' = IF out.ok THEN "serving" ELSE "exit"
                /\ poolHist' =
                     [path |-> out.path, at |-> now, before |-> cacheFile,
                      fetch |-> IF out.path = "cache" THEN "none"
                                ELSE IF upstream.ok THEN "ok" ELSE "error",
                      cacheList |-> IF written THEN out.models ELSE poolHist.cacheList,
                      cacheContext |-> IF written THEN fetched ELSE poolHist.cacheContext,
                      poolContext |-> IF out.path = "fetch" THEN fetched
                                      ELSE IF out.ok THEN poolHist.cacheContext
                                      ELSE NoContext,
                      boots |-> poolHist.boots]
    /\ UNCHANGED <<now, storeVars, defaultCooldown, rateLimitCooldown, modelFilter, freeMode,
                   modelNames, concVars,
                   keySources, apiKey, trackVars, reqVars>>

\* the process ends and is started again with the same configuration
Restart ==
    /\ boot \in {"serving", "exit"}
    /\ poolHist.boots < MaxBoots
    /\ boot' = "keyed"
    /\ freeModels' = <<>>
    /\ poolHist' = [poolHist EXCEPT !.boots = @ + 1]
    /\ UNCHANGED <<now, storeVars, defaultCooldown, rateLimitCooldown, modelFilter, freeMode,
                   modelNames, concVars,
                   keySources, apiKey, cacheFile, trackVars, reqVars>>

PoolTick == TickUpTo(PoolMaxTime)

NextPool == initFreeMode \/ Restart \/ PoolTick

SpecPool == InitPool /\ [][NextPool]_vars

\* the last ensureFreeModelFile call of a finished startup found the cache
\* file past its TTL (or missing) and the fetch failed
FetchFailedAtStartup ==
    boot \in {"serving", "exit"} /\ poolHist.fetch = "error"

\* C16: after a failed fetch, a cache file older than the TTL is returned as
\* its trimmed non-empty lines in file order and is left as it was (still
\* there, same bytes, same mtime), and the server starts with it; with no
\* cache file the startup fails with the fetch error and no file is made.
C16_StaleCacheReturnedUntouched ==
    FetchFailedAtStartup =>
        IF poolHist.before.exists
        THEN /\ poolHist.at - poolHist.before.mtime >= CacheTTLTicks
             /\ boot = "serving"
             /\ freeModels = Lines(poolHist.before.data)
             /\ cacheFile = poolHist.before
        ELSE /\ boot = "exit"
             /\ poolHist.path = "fetchError"
             /\ cacheFile = NoFile

C16_Witness ==
    /\ FetchFailedAtStartup
    /\ poolHist.before.exists
    /\ Len(freeModels) = 2
    /\ cacheFile.mtime < poolHist.at

\* the pool of a finished startup was read from a cache file within its TTL
LoadedFromFreshCache ==
    boot = "serving" /\ poolHist.path = "cache"

\* C17: a list returned by a fetch and written to the cache file is, when
\* the server loads its pool from the file within the TTL, the same ordered
\* list.
C17_CacheRoundTrip ==
    LoadedFromFreshCache => freeModels = poolHist.cacheList

C17_Witness ==
    /\ LoadedFromFreshCache
    /\ poolHist.cacheList = <<PB, PA>>
    /\ freeModels = <<PB, PA>>
    /\ poolHist.boots = 2

\* C18: the pool of a started server is in non-increasing order of the
\* effective context lengths its ids had in the fetch the pool comes from,
\* whether it was fetched now, read from a fresh cache or from a stale one.
C18_PoolSortedByContext ==
    boot = "serving" =>
        /\ \A i \in 1..Len(freeModels) : freeModels[i] \in DOMAIN poolHist.poolContext
        /\ \A i, j \in 1..Len(freeModels) :
              i < j => poolHist.poolContext[freeModels[i]]
                           >= poolHist.poolContext[freeModels[j]]

C18_Witness ==
    /\ boot = "serving"
    /\ poolHist.path = "stale"
    /\ freeModels = <<PB, PA>>
    /\ poolHist.poolContext[PB] = 3
    /\ poolHist.poolContext[PA] = 1

---------------------------------------------------------------------------
(* Model listings in free and non-free mode: GET /api/tags and              *)
(* GET /v1/models with a model filter.  TOOL_USE_ONLY is not set.           *)

MaxListed == 2

PAB == <<"p", "/", "a", "b">>

\* what client.ListModels answers: model ids, or an error
ProviderAnswers ==
    [ok : {TRUE},
     ids : {l \in UNION {[1..n -> {PA, PB, PAB}] : n \in 0..MaxListed} :
               \A i, j \in 1..Len(l) : l[i] = l[j] => i = j}]
    \cup {[ok |-> FALSE, ids |-> <<>>]}

\* OpenrouterProvider.GetModels: Model.Name = Model.Model = last segment of the id
GetModels(ids) == [i \in 1..Len(ids) |-> displayNameOf(ids[i])]

\* the loop of the non-free branch of handleListModels and handleOpenAIModels:
\* with a filter, a model is kept when the filter has its name as an entry
ListNonFree(models) ==
    SelectSeq(models, LAMBDA m : modelFilter = {} \/ m \in modelFilter)

\* the lines a filter file may hold
ListFilterChoices == SUBSET {<<"a">>, <<"b">>, <<"a", "b">>}

InitList ==
    /\ now = 0
    /\ defaultCooldown = 0 /\ rateLimitCooldown = 0
    /\ freeMode \in BOOLEAN
    /\ freeModels \in (IF freeMode THEN PoolChoices ELSE {<<>>})
    /\ modelFilter \in ListFilterChoices
    /\ ServingIdle
    /\ StartupDone

\* GET /api/tags (kind "tags") and GET /v1/models (kind "models"): the names
\* or ids of the answer; offered keeps the display names the handler chose
\* from
ListModels(kind) ==
    /\ pc = "idle"
    /\ \E answer \in ProviderAnswers :
         /\ req' = [IdleReq EXCEPT !.kind = kind, !.start = now]
         /\ resp' =
              IF freeMode
              THEN [status |-> 200,
                    names |-> IF kind = "tags" THEN handleListModels ELSE handleOpenAIModels,
                    offered |-> {displayNameOf(freeModels[i]) : i \in 1..Len(freeModels)}]
              ELSE IF ~answer.ok
              THEN [status |-> 500, names |-> <<>>, offered |-> {}]
              ELSE [status |-> 200,
                    names |-> ListNonFree(GetModels(answer.ids)),
                    offered |-> Range(GetModels(answer.ids))]
         /\ modelNames' = IF ~freeMode /\ answer.ok THEN answer.ids ELSE modelNames
    /\ pc' = "done"
    /\ UNCHANGED <<now, storeVars, defaultCooldown, rateLimitCooldown, freeModels,
                   modelFilter, freeMode, startVars, poolVars, concVars, trackVars,
                   rt, reqCalls, lastUp, nreq>>

\* the handler has returned
ListDone ==
    /\ pc = "done"
    /\ pc' = "idle"
    /\ req' = IdleReq
    /\ resp' = IdleResp
    /\ UNCHANGED <<now, storeVars, cfgVars, startVars, poolVars, concVars, trackVars,
                   rt, reqCalls, lastUp, nreq>>

NextList == ListModels("tags") \/ ListModels("models") \/ ListDone

SpecList == InitList /\ [][NextList]_vars

\* C20 (as stated): with a non-empty filter, an answered listing of either
\* endpoint, in free and in non-free mode, holds a model iff some filter
\* entry is a substring of its display name.
C20_FilterIsSubstringMatch ==
    (pc = "done" /\ req.kind \in {"tags", "models"} /\ resp.status = 200
        /\ modelFilter # {})
    => \A d \in resp.offered :
          (d \in Range(resp.names)) <=> (\E entry \in modelFilter : Contains(d, entry))

---------------------------------------------------------------------------
(* Concurrent request handlers: gin serves every request in a goroutine of  *)
(* its own; the handlers share the failure store, the permanent tracker,    *)
(* the limiter registry and the per-model limiters.  Non-streaming          *)
(* /api/chat in free mode.  clock counts fractions of the 50 ms intervals;  *)
(* now follows it at the resolution of the other parts.                     *)

TicksPerInterval == 2
ConcMaxTime      == 3
MaxServed        == 1

MinIntervalUs == 50000
GlobalWaitUs  == 50000
SweepSleepUs  == 500000

ConcTickUs == (MinIntervalUs + TicksPerInterval - 1) \div TicksPerInterval

\* a duration on the fine clock, rounded up: time.Sleep(d) returns no earlier
ConcTicks(us) == (us + ConcTickUs - 1) \div ConcTickUs

\* the fine clock read at the resolution of now
StoreClock(t) == (t * ConcTickUs) \div TickUs

\* time.Now().Add(backoffDuration) on the fine clock
ConcBackoffUntilChoices(failureCount, t) ==
    {t + ConcTicks(calculateBackoff(failureCount, r, conv)) :
        r \in JitterSamples, conv \in ConversionOutcomes}

\* the mutexes
RegistryMu   == [kind |-> "registry", model |-> <<>>]
TrackerMu    == [kind |-> "tracker", model |-> <<>>]
LimiterMu(m) == [kind |-> "limiter", model |-> m]

\* variant: Lock returns whether or not the mutex is held
LockFree_Always(h, mu) == TRUE

\* mu.Lock() returns only when no goroutine holds mu
LockFree(h, mu) == \A q \in Procs : mu \notin h[q]

Lock(h, p, mu) == [h EXCEPT ![p] = @ \cup {mu}]

\* variant: the deferred Unlock does not run
Unlock_Never(h, p, mu) == h

\* mu.Unlock()
Unlock(h, p, mu) == [h EXCEPT ![p] = @ \ {mu}]

\* variant: Wait computes its waiting time and returns without sleeping
WaitPlan_NoSleep(l, t) ==
    IF t < l.backoffUntil THEN [branch |-> "backoff", wake |-> t]
    ELSE [branch |-> "interval", wake |-> t]

\* variant: the interval branch stamps without sleeping
WaitPlan_NoIntervalSleep(l, t) ==
    IF t < l.backoffUntil
    THEN [branch |-> "backoff", wake |-> l.backoffUntil]
    ELSE [branch |-> "interval", wake |-> t]

\* RateLimiter.Wait after r.mu.Lock() at time t: the branch it takes and the
\* time its time.Sleep ends (t when it does not sleep)
WaitPlan(l, t) ==
    IF t < l.backoffUntil
    THEN [branch |-> "backoff", wake |-> l.backoffUntil]
    ELSE IF l.lastRequestTime # Never /\ t - l.lastRequestTime < ConcTicks(MinIntervalUs)
    THEN [branch |-> "interval", wake |-> l.lastRequestTime + ConcTicks(MinIntervalUs)]
    ELSE [branch |-> "interval", wake |-> t]

\* GlobalRateLimiter.WaitGlobal after g.mu.Lock() at time t: when its sleep ends
GlobalWake(last, t) ==
    IF last # Never /\ t - last < ConcTicks(GlobalWaitUs)
    THEN last + ConcTicks(GlobalWaitUs)
    ELSE t

\* s.provider.Chat starts at time t
CallStarted(u, t) ==
    [last |-> t,
     gap  |-> IF u.last = Never THEN u.gap
              ELSE IF u.gap = Never THEN t - u.last
              ELSE min(u.gap, t - u.last)]

\* model names the concurrent clients ask for: the display name of p/a, and
\* a name that is not in the pool
ConcRequested == {<<"a">>, <<"u">>}

ConcErrors == {ErrRateLimit, ErrNotFound, ErrTimeout}

InitConc ==
    /\ now = 0
    /\ defaultCooldown = 2 * TicksPerSec
    /\ rateLimitCooldown = TicksPerSec
    /\ freeMode = TRUE
    /\ freeModels \in PoolChoices
    /\ modelFilter = {}
    /\ ServingIdle
    /\ StartupDone

\* a step of handler p: its record becomes h; the request variables of the
\* sequential parts and the configuration stay as they are
HandlerStep(p, h) ==
    /\ handlers' = [handlers EXCEPT ![p] = h]
    /\ UNCHANGED <<stLast, cfgVars, startVars, poolVars, reqVars, temporaryFailed, trkHist, limHist>>

\* the handler is done with its request
HandlerReturned(h) == [IdleHandler EXCEPT !.served = h.served]

\* handleChat up to the direct attempt of getFreeChatForModel: the upstream
\* call of the direct attempt starts here, with no limiter in between
StartConc(p) ==
    LET h == handlers[p] IN
    /\ h.pc = "idle"
    /\ h.served < MaxServed
    /\ \E requested \in ConcRequested :
         LET full == resolveDisplayNameToFullModel(requested) IN
         IF /\ (full # requested \/ contains(freeModels, full))
            /\ ~ShouldSkip(failures, full, now)
         THEN /\ upHist' = CallStarted(upHist, clock)
              /\ HandlerStep(p, [h EXCEPT !.pc = "directCall", !.model = full,
                                          !.served = @ + 1])
         ELSE /\ upHist' = upHist
              /\ HandlerStep(p, [h EXCEPT !.pc = "sweep", !.idx = 1, !.served = @ + 1])
    /\ UNCHANGED <<now, clock, failures, trackVars, held>>

\* the direct attempt's call returns: ClearFailure and the answer, or
\* MarkFailure and the sweep
DirectAnswer(p) ==
    LET h == handlers[p] IN
    /\ h.pc = "directCall"
    /\ \E err \in {NoError} \cup ConcErrors :
         IF err = NoError
         THEN /\ failures' = ClearFailure(failures, h.model)
              /\ HandlerStep(p, HandlerReturned(h))
         ELSE /\ failures' = MarkFailure(failures, h.model, now)
              /\ HandlerStep(p, [h EXCEPT !.pc = "sweep", !.idx = 1])
    /\ UNCHANGED <<now, clock, trackVars, held, upHist>>

\* variant: the loop stays at an entry it passes over
SweepHead_NoAdvance(p) ==
    LET h == handlers[p] IN
    /\ h.pc = "sweep"
    /\ IF h.idx > Len(freeModels)
       THEN HandlerStep(p, HandlerReturned(h))
       ELSE /\ LockFree(held, TrackerMu)
            /\ IF SweepSkips(freeModels[h.idx], permanentFailed, failures)
               THEN HandlerStep(p, h)
               ELSE HandlerStep(p, [h EXCEPT !.pc = "getLimiter",
                                             !.model = freeModels[h.idx]])
    /\ UNCHANGED <<now, clock, failures, trackVars, held, upHist>>

\* head of the loop of getFreeChat: the end of the pool, or the three tests
\* on the next entry (IsPermanentlyFailed takes the tracker's read lock)
SweepHead(p) ==
    LET h == handlers[p] IN
    /\ h.pc = "sweep"
    /\ IF h.idx > Len(freeModels)
       THEN HandlerStep(p, HandlerReturned(h))
       ELSE /\ LockFree(held, TrackerMu)
            /\ IF SweepSkips(freeModels[h.idx], permanentFailed, failures)
               THEN HandlerStep(p, [h EXCEPT !.idx = @ + 1])
               ELSE HandlerStep(p, [h EXCEPT !.pc = "getLimiter",
                                             !.model = freeModels[h.idx]])
    /\ UNCHANGED <<now, clock, failures, trackVars, held, upHist>>

\* s.globalLimiter.GetLimiter(m), under the registry mutex
GetLimiterStep(p) ==
    LET h == handlers[p] IN
    /\ h.pc = "getLimiter"
    /\ LockFree(held, RegistryMu)
    /\ limiters' = GetLimiter(limiters, h.model)
    /\ held' = Unlock(Lock(held, p, RegistryMu), p, RegistryMu)
    /\ HandlerStep(p, [h EXCEPT !.pc = "wait"])
    /\ UNCHANGED <<now, clock, failures, permanentFailed, lastGlobal, upHist, temporaryFailed, trkHist, limHist>>

\* limiter.Wait(): r.mu.Lock(), time.Now() and the choice of the branch;
\* entry keeps the time of the call and what it found
WaitEnter(p) ==
    LET h == handlers[p]
        l == limiters[h.model]
        plan == WaitPlan(l, clock)
    IN  /\ h.pc = "wait"
        /\ LockFree(held, LimiterMu(h.model))
        /\ held' = Lock(held, p, LimiterMu(h.model))
        /\ HandlerStep(p, [h EXCEPT !.pc = "inWait", !.branch = plan.branch,
                                    !.wake = plan.wake,
                                    !.entry = [at |-> clock,
                                               lastRequestTime |-> l.lastRequestTime,
                                               backoffUntil |-> l.backoffUntil]])
        /\ UNCHANGED <<now, clock, failures, trackVars, upHist>>

\* limiter.Wait(): the sleep is over; lastRequestTime is stamped unless the
\* backoff branch returned; the deferred Unlock runs
WaitReturn(p) ==
    LET h == handlers[p] IN
    /\ h.pc = "inWait"
    /\ clock >= h.wake
    /\ limiters' = IF h.branch = "backoff" THEN limiters
                   ELSE [limiters EXCEPT ![h.model].lastRequestTime = clock]
    /\ held' = Unlock(held, p, LimiterMu(h.model))
    /\ HandlerStep(p, [h EXCEPT !.pc = "waitGlobal", !.ret = clock])
    /\ UNCHANGED <<now, clock, failures, permanentFailed, lastGlobal, upHist, temporaryFailed, trkHist, limHist>>

\* WaitGlobal(): g.mu.Lock(), time.Now() and the waiting time (the history
\* of the Wait before it is dropped)
GlobalEnter(p) ==
    LET h == handlers[p] IN
    /\ h.pc = "waitGlobal"
    /\ LockFree(held, RegistryMu)
    /\ held' = Lock(held, p, RegistryMu)
    /\ HandlerStep(p, [h EXCEPT !.pc = "inGlobal", !.wake = GlobalWake(lastGlobal, clock),
                                !.entry = [at |-> Never], !.ret = Never])
    /\ UNCHANGED <<now, clock, failures, trackVars, upHist>>

\* WaitGlobal(): the sleep is over, lastGlobal is stamped, the mutex is
\* released and s.provider.Chat(msgs, m) starts
GlobalReturn(p) ==
    LET h == handlers[p] IN
    /\ h.pc = "inGlobal"
    /\ clock >= h.wake
    /\ lastGlobal' = clock
    /\ held' = Unlock(held, p, RegistryMu)
    /\ upHist' = CallStarted(upHist, clock)
    /\ HandlerStep(p, [h EXCEPT !.pc = "call"])
    /\ UNCHANGED <<now, clock, failures, permanentFailed, limiters, temporaryFailed, trkHist, limHist>>

\* the sweep's call returns: limiter.RecordFailure(err) or
\* limiter.RecordSuccess(), under the limiter's mutex
CallAnswer(p) ==
    LET h == handlers[p]
        l == limiters[h.model]
    IN  /\ h.pc = "call"
        /\ LockFree(held, LimiterMu(h.model))
        /\ held' = Unlock(Lock(held, p, LimiterMu(h.model)), p, LimiterMu(h.model))
        /\ \E err \in {NoError} \cup ConcErrors :
             IF err = NoError
             THEN /\ limiters' = [limiters EXCEPT ![h.model] = RecordSuccess(l)]
                  /\ HandlerStep(p, [h EXCEPT !.pc = "clear"])
             ELSE \E bu \in ConcBackoffUntilChoices(l.failureCount + 1, clock) :
                  /\ limiters' = [limiters EXCEPT ![h.model] = RecordFailure(l, err, bu)]
                  /\ HandlerStep(p, [h EXCEPT !.pc = "mark", !.err = err])
        /\ UNCHANGED <<now, clock, failures, permanentFailed, lastGlobal, upHist, temporaryFailed, trkHist, limHist>>

\* s.failureStore.ClearFailure(m); return resp, m, nil
ClearStep(p) ==
    LET h == handlers[p] IN
    /\ h.pc = "clear"
    /\ failures' = ClearFailure(failures, h.model)
    /\ HandlerStep(p, HandlerReturned(h))
    /\ UNCHANGED <<now, clock, trackVars, held, upHist>>

\* the error branch of the sweep after RecordFailure: the tracker (under its
\* mutex), or the store and the 500 ms sleep, or the store alone
MarkStep(p) ==
    LET h == handlers[p] IN
    /\ h.pc = "mark"
    /\ IF isPermanentError(h.err)
       THEN /\ LockFree(held, TrackerMu)
            /\ permanentFailed' = MarkPermanentFailure(permanentFailed, h.model)
            /\ held' = Unlock(Lock(held, p, TrackerMu), p, TrackerMu)
            /\ failures' = failures
            /\ HandlerStep(p, [h EXCEPT !.pc = "sweep", !.idx = @ + 1])
       ELSE IF isRateLimitError(h.err)
       THEN /\ failures' = MarkFailureWithType(failures, h.model, "rate_limit", now)
            /\ HandlerStep(p, [h EXCEPT !.pc = "sleep",
                                        !.wake = clock + ConcTicks(SweepSleepUs)])
            /\ UNCHANGED <<permanentFailed, held, temporaryFailed, trkHist, limHist>>
       ELSE /\ failures' = MarkFailure(failures, h.model, now)
            /\ HandlerStep(p, [h EXCEPT !.pc = "sweep", !.idx = @ + 1])
            /\ UNCHANGED <<permanentFailed, held, temporaryFailed, trkHist, limHist>>
    /\ UNCHANGED <<now, clock, limiters, lastGlobal, upHist, temporaryFailed, trkHist, limHist>>

\* time.Sleep(500 * time.Millisecond) is over; continue
SleepDone(p) ==
    LET h == handlers[p] IN
    /\ h.pc = "sleep"
    /\ clock >= h.wake
    /\ HandlerStep(p, [h EXCEPT !.pc = "sweep", !.idx = @ + 1])
    /\ UNCHANGED <<now, clock, failures, trackVars, held, upHist>>

\* the times at which a sleeping handler is due
DueTimes ==
    {handlers[p].wake : p \in {q \in Procs : /\ handlers[q].pc \in {"inWait", "inGlobal", "sleep"}
                                             /\ handlers[q].wake > clock}}

\* handler p has a step to take that waits for nothing: no mutex held by
\* another goroutine, no sleep that is not over, no answer of upstream
Urgent(p) ==
    LET h == handlers[p] IN
    \/ h.pc \in {"sweep", "clear", "mark"}
    \/ h.pc \in {"getLimiter", "waitGlobal"} /\ LockFree(held, RegistryMu)
    \/ h.pc = "wait" /\ LockFree(held, LimiterMu(h.model))
    \/ h.pc \in {"inWait", "inGlobal", "sleep"} /\ clock >= h.wake

\* time passes, while no handler has such a step (the code between two
\* blocking operations takes no time on this clock): tick by tick up to
\* ConcMaxTime, after that straight to the next time a sleeper is due
ConcTick ==
    /\ \A p \in Procs : ~Urgent(p)
    /\ IF clock < ConcMaxTime THEN clock' = clock + 1
       ELSE /\ DueTimes # {}
            /\ clock' = Min(DueTimes)
    /\ now' = StoreClock(clock')
    /\ UNCHANGED <<storeVars, cfgVars, startVars, poolVars, trackVars, reqVars,
                   handlers, held, upHist>>

NextConc ==
    \/ ConcTick
    \/ \E p \in Procs :
         \/ StartConc(p) \/ DirectAnswer(p) \/ SweepHead(p) \/ GetLimiterStep(p)
         \/ WaitEnter(p) \/ WaitReturn(p) \/ GlobalEnter(p) \/ GlobalReturn(p)
         \/ CallAnswer(p) \/ ClearStep(p) \/ MarkStep(p) \/ SleepDone(p)

SpecConc == InitConc /\ [][NextConc]_vars

\* scheduling: a goroutine that can run does run (weak fairness of every
\* step of a handler that waits for nothing but the scheduler), a mutex is
\* handed to a goroutine that keeps asking for it (sync.Mutex starvation
\* mode: strong fairness of the steps that lock), and time passes.  The
\* arrival of requests and the answers of upstream are left to the
\* environment.
HandlerFairness(p) ==
    /\ WF_vars(SweepHead(p)) /\ WF_vars(ClearStep(p)) /\ WF_vars(SleepDone(p))
    /\ WF_vars(WaitReturn(p)) /\ WF_vars(GlobalReturn(p))
    /\ SF_vars(GetLimiterStep(p)) /\ SF_vars(WaitEnter(p)) /\ SF_vars(GlobalEnter(p))
    /\ SF_vars(MarkStep(p))

\* the fair runs are those of a pool of one model, where all handlers meet
\* at the same limiter, from the moment (clock 0) the server has answered a
\* first request with p/a through the sweep
InitConcFair ==
    /\ now = 0
    /\ defaultCooldown = 2 * TicksPerSec
    /\ rateLimitCooldown = TicksPerSec
    /\ freeMode = TRUE
    /\ freeModels = <<PA>>
    /\ modelFilter = {}
    /\ failures = [m \in Models |-> NoRow]
    /\ stLast = [m \in Models |-> [op |-> "none", at |-> 0, class |-> "none", marks |-> 0]]
    /\ permanentFailed = {}
    /\ temporaryFailed = [m \in Models |-> Never]
    /\ trkHist = NoTrkHist
    /\ limHist = NoLimHist
    /\ modelNames = <<>>
    /\ limiters = [m \in Models |->
                     IF m = PA THEN [NewRateLimiter EXCEPT !.lastRequestTime = 0]
                     ELSE NoLimiter]
    /\ lastGlobal = 0
    /\ pc = "idle" /\ req = IdleReq /\ rt = IdleRt /\ resp = IdleResp
    /\ reqCalls = <<>>
    /\ lastUp = [class |-> [m \in Models |-> "none"], at |-> Never]
    /\ nreq = 0
    /\ handlers = [p \in Procs |-> IdleHandler]
    /\ held = [p \in Procs |-> {}]
    /\ upHist = [last |-> 0, gap |-> Never]
    /\ clock = 0
    /\ StartupDone

SpecConcFair ==
    InitConcFair /\ [][NextConc]_vars /\ WF_vars(ConcTick) /\ \A p \in Procs : HandlerFairness(p)

---------------------------------------------------------------------------
(* Concurrent handlers: claims C11, C13, C14 and C15 *)

\* C11 (as stated): any two upstream chat calls of the process, those of
\* direct attempts included, start at least global_wait (50 ms) apart.
C11_UpstreamCallsSpaced ==
    upHist.gap = Never \/ upHist.gap >= ConcTicks(GlobalWaitUs)

\* C13: a Wait() that was called before last_request_time + min_interval
\* has not returned before that time, and one called before backoff_until
\* has not returned before backoff_until (the values Wait found under its
\* mutex).
C13_WaitHoldsBack ==
    \A p \in Procs :
        LET e == handlers[p].entry
            ret == handlers[p].ret
        IN  ret # Never =>
              /\ (e.lastRequestTime # Never
                    /\ e.at < e.lastRequestTime + ConcTicks(MinIntervalUs))
                 => ret >= e.lastRequestTime + ConcTicks(MinIntervalUs)
              /\ e.at < e.backoffUntil => ret >= e.backoffUntil

C13_Witness ==
    \E p, q \in Procs :
        /\ handlers[p].ret # Never
        /\ handlers[p].entry.at < handlers[p].entry.backoffUntil
        /\ handlers[q].ret # Never
        /\ handlers[q].entry.lastRequestTime # Never
        /\ handlers[q].entry.at < handlers[q].entry.lastRequestTime + ConcTicks(MinIntervalUs)

\* the mutex handler p is about to take, if any
NextLock(p) ==
    LET h == handlers[p] IN
    IF h.pc \in {"getLimiter", "waitGlobal"} THEN {RegistryMu}
    ELSE IF h.pc \in {"wait", "call"} THEN {LimiterMu(h.model)}
    ELSE IF h.pc = "mark" /\ isPermanentError(h.err) THEN {TrackerMu}
    ELSE IF h.pc = "sweep" /\ h.idx <= Len(freeModels) THEN {TrackerMu}
    ELSE {}

\* the next step of handler p calls the failure store
CallsStoreNext(p) ==
    handlers[p].pc \in {"idle", "directCall", "sweep", "clear", "mark"}

\* p waits for a mutex that q holds
WaitsFor(p, q) == p # q /\ NextLock(p) \cap held[q] # {}

\* C15: no handler holds a limiter mutex, the registry mutex or the tracker
\* mutex when it is about to take one of them or to call the failure store,
\* and no set of handlers wait for each other in a circle.
C15_NoLockHeldAcrossAcquire ==
    /\ \A p \in Procs : (NextLock(p) # {} \/ CallsStoreNext(p)) => held[p] = {}
    /\ ~\E S \in SUBSET Procs :
          /\ S # {}
          /\ \A p \in S : \E q \in S : WaitsFor(p, q)

C15_Witness ==
    \E p, q \in Procs :
        /\ WaitsFor(p, q)
        /\ handlers[p].pc = "getLimiter"
        /\ handlers[q].pc = "inGlobal"

\* handler p is inside limiter.Wait(): waiting for the mutex or holding it
InWaitCall(p) == handlers[p].pc \in {"wait", "inWait"}

\* handler p is inside WaitGlobal()
InWaitGlobalCall(p) == handlers[p].pc \in {"waitGlobal", "inGlobal"}

\* no two handlers are past the Lock of Wait() of the same limiter
WaitMutualExclusion ==
    \A p, q \in Procs :
        (handlers[p].pc = "inWait" /\ handlers[q].pc = "inWait"
            /\ handlers[p].model = handlers[q].model) => p = q

---------------------------------------------------------------------------
(* GET /api/tags in free mode while the failure store changes: request      *)
(* handlers mark and clear pool models between listings.                    *)

TagsMaxTime  == 3
TagsMaxMarks == 2

\* the ids a pool file may hold here
TagModels == {PA, PB, PAB}

TagsPoolChoices == {<<PA, PB>>, <<PB, PAB, PA>>}

InitTags ==
    /\ now = 0
    /\ InitConfig
    /\ freeModels \in TagsPoolChoices
    /\ modelFilter \in ListFilterChoices
    /\ handlers = [p \in Procs |-> IdleHandler]
    /\ held = [p \in Procs |-> {}]
    /\ upHist = NoUpHist
    /\ clock = 0
    /\ modelNames = <<>>
    /\ failures = [m \in TagModels |-> NoRow]
    /\ stLast = [m \in Models |-> [op |-> "none", at |-> 0, class |-> "none", marks |-> 0]]
    /\ permanentFailed = {}
    /\ temporaryFailed = [m \in Models |-> Never]
    /\ trkHist = NoTrkHist
    /\ limHist = NoLimHist
    /\ limiters = [m \in Models |-> NoLimiter]
    /\ lastGlobal = Never
    /\ pc = "idle" /\ req = IdleReq /\ rt = IdleRt /\ resp = IdleResp
    /\ reqCalls = <<>>
    /\ lastUp = [class |-> [m \in Models |-> "none"], at |-> Never]
    /\ nreq = 0
    /\ StartupDone

\* a request handler records a failure of a pool model
TagsMark ==
    /\ pc = "idle"
    /\ \E i \in 1..Len(freeModels), c \in {"general", "rate_limit"} :
         /\ IF failures[freeModels[i]] = NoRow THEN TRUE
            ELSE failures[freeModels[i]].failure_count < TagsMaxMarks
         /\ failures' = MarkFailureWithType(failures, freeModels[i], c, now)
    /\ UNCHANGED <<now, stLast, cfgVars, startVars, poolVars, concVars, trackVars, reqVars>>

\* a request handler records a success of a pool model
TagsClear ==
    /\ pc = "idle"
    /\ \E i \in 1..Len(freeModels) :
         failures' = ClearFailure(failures, freeModels[i])
    /\ UNCHANGED <<now, stLast, cfgVars, startVars, poolVars, concVars, trackVars, reqVars>>

TagsTick == TickUpTo(TagsMaxTime)

NextTags == TagsTick \/ TagsMark \/ TagsClear \/ ListModels("tags") \/ ListDone

SpecTags == InitTags /\ [][NextTags]_vars

\* entry occurs in name as a run of consecutive characters
IsSubstringOf(entry, name) ==
    \E i \in 1..(Len(name) + 1), j \in 0..Len(name) : SubSeq(name, i, j) = entry

\* the display names the filter is asked about
DisplayNames == {<<"a">>, <<"b">>, <<"a", "b">>, <<"b", "a">>, <<"c">>}

\* at time t the failure store holds the model back: it has a row whose
\* cooldown, counted from failed_at, is not over
InCooldown(m, t) ==
    /\ failures[m] # NoRow
    /\ t < TimeOfUnix(failures[m].failed_at)
             + ClaimedCooldown(failures[m].failure_type, failures[m].failure_count)

\* the pool entries a free-mode listing made at time t is to show, in pool
\* order
Listable(t) ==
    SelectSeq(freeModels,
              LAMBDA m : /\ ~InCooldown(m, t)
                         /\ \/ modelFilter = {}
                            \/ \E entry \in modelFilter :
                                   IsSubstringOf(entry, displayNameOf(m)))

---------------------------------------------------------------------------
(* Non-free mode: /api/chat with stream=false resolves the requested name   *)
(* against the provider's model listing and forwards it.  Upstream rejects  *)
(* a chat call for an id that its listing does not hold.                    *)

\* strings.HasSuffix(s, suffix)
HasSuffix(s, suffix) ==
    /\ Len(suffix) <= Len(s)
    /\ SubSeq(s, Len(s) - Len(suffix) + 1, Len(s)) = suffix

\* OpenrouterProvider.GetFullModelName once modelNames has been loaded:
\* an exact match, else the first id that ends in alias, else alias itself
GetFullModelName(names, alias) ==
    LET exact  == {i \in 1..Len(names) : names[i] = alias}
        suffix == {i \in 1..Len(names) : HasSuffix(names[i], alias)}
    IN  IF exact # {} THEN names[Min(exact)]
        ELSE IF suffix # {} THEN names[Min(suffix)]
        ELSE alias

ErrListModels == <<"failed", "to", "get", "models:", "failed", "to", "list", "models:">>

\* what upstream answers to a chat call for id, its listing being names
ChatOutcomes(names, id) ==
    IF \E i \in 1..Len(names) : names[i] = id
    THEN {<<"ok">>} \cup {ProviderError(FALSE, e) : e \in {ErrRateLimit, ErrTimeout}}
    ELSE {ProviderError(FALSE, ErrNotFound)}

NonFreeNames == {<<"a">>, <<"a", "b">>, PA, <<"u">>, <<>>}

InitNonFree ==
    /\ now = 0
    /\ defaultCooldown = 0 /\ rateLimitCooldown = 0
    /\ freeMode = FALSE
    /\ freeModels = <<>>
    /\ modelFilter = {}
    /\ ServingIdle
    /\ StartupDone

\* handleChat with stream=false in non-free mode, up to the answer
NonFreeChat ==
    /\ pc = "idle"
    /\ ~freeMode
    /\ nreq < MaxRequests
    /\ nreq' = nreq + 1
    /\ pc' = "done"
    /\ \E model \in NonFreeNames, answer \in ProviderAnswers :
         LET fetch == Len(modelNames) = 0
             names == IF fetch /\ answer.ok THEN answer.ids ELSE modelNames
             fullModelName == GetFullModelName(names, model)
         IN  /\ req' = [IdleReq EXCEPT !.kind = "chat", !.model = model, !.start = now]
             /\ IF RejectedByHandler("chat", model, FALSE)
                THEN /\ resp' = [IdleResp EXCEPT !.status = 400]
                     /\ reqCalls' = <<>>
                     /\ UNCHANGED modelNames
                ELSE IF fetch /\ ~answer.ok
                THEN /\ resp' = [IdleResp EXCEPT !.status = 404, !.error = ErrListModels]
                     /\ reqCalls' = <<>>
                     /\ UNCHANGED modelNames
                ELSE /\ modelNames' = names
                     /\ \E out \in ChatOutcomes(names, fullModelName) :
                          /\ reqCalls' = <<[phase |-> "nonfree", model |-> fullModelName,
                                            at |-> now, out |-> out, ret |-> now]>>
                          /\ resp' = IF out = <<"ok">>
                                     THEN [IdleResp EXCEPT !.status = 200,
                                                           !.model = fullModelName]
                                     ELSE [IdleResp EXCEPT !.status = 500, !.error = out]
    /\ UNCHANGED <<now, storeVars, defaultCooldown, rateLimitCooldown, freeModels,
                   modelFilter, freeMode, startVars, poolVars, concVars, trackVars,
                   rt, lastUp>>

\* the handler has returned
NonFreeDone ==
    /\ pc = "done"
    /\ pc' = "idle"
    /\ req' = IdleReq
    /\ resp' = IdleResp
    /\ reqCalls' = <<>>
    /\ UNCHANGED <<now, storeVars, cfgVars, startVars, poolVars, concVars, trackVars,
                   rt, lastUp, nreq>>

NextNonFree == NonFreeChat \/ ListModels("tags") \/ NonFreeDone

SpecNonFree == InitNonFree /\ [][NextNonFree]_vars

\* the requested name is no id of the listing and no ending of one
MatchesNoModel(names, name) ==
    \A i \in 1..Len(names) : names[i] # name /\ ~HasSuffix(names[i], name)

\* C22 (as stated): in non-free mode a chat request whose model name matches
\* no model known to upstream is answered with HTTP 404 and is not forwarded
\* to upstream under the unresolved name.
C22_UnknownModelIs404 ==
    (/\ pc = "done" /\ ~freeMode /\ req.kind = "chat"
     /\ resp.status # 400
     /\ MatchesNoModel(modelNames, req.model))
    => (resp.status = 404 /\ reqCalls = <<>>)

---------------------------------------------------------------------------
(* Failure store: claims C23 and C24, checked under SpecStore.  Every        *)
(* operation of the store is one SQL statement, which the database runs     *)
(* atomically; the statements of concurrent request handlers reach the      *)
(* table in some order, and SpecStore takes them in every order.  The       *)
(* table has model as its primary key: failures maps a model to its one     *)
(* row or to NoRow.                                                         *)

CappedCount(count) == IF count >= 5 THEN 5 ELSE count

\* C24: the cooldown ShouldSkip applies to a row is the rate-limit constant
\* when the class is rate_limit, whatever the count; otherwise the base when
\* count <= 1 and base x min(count, 5) when count > 1, so it never exceeds
\* 5 x base; ShouldSkip is true exactly while the row is younger than that.
C24_CooldownCappedAtFiveTimesBase ==
    \A m \in Models :
        failures[m] # NoRow =>
            LET row == failures[m]
                age == now - TimeOfUnix(row.failed_at)
            IN  /\ row.failure_type = "rate_limit" =>
                      /\ CooldownOf(row) = rateLimitCooldown
                      /\ ShouldSkip(failures, m, now) <=> age < rateLimitCooldown
                /\ (row.failure_type # "rate_limit" /\ row.failure_count <= 1) =>
                      /\ CooldownOf(row) = defaultCooldown
                      /\ ShouldSkip(failures, m, now) <=> age < defaultCooldown
                /\ (row.failure_type # "rate_limit" /\ row.failure_count > 1) =>
                      /\ CooldownOf(row) = defaultCooldown * CappedCount(row.failure_count)
                      /\ ShouldSkip(failures, m, now)
                           <=> age < defaultCooldown * CappedCount(row.failure_count)
                /\ row.failure_type # "rate_limit" =>
                      CooldownOf(row) <= 5 * defaultCooldown

\* a general row whose count has passed 5 next to a rate_limit row with a
\* count above 1, under a base cooldown that is not zero
C24_Witness ==
    /\ defaultCooldown > 0
    /\ failures[PA] # NoRow /\ failures[PB] # NoRow
    /\ failures[PA].failure_type = "general" /\ failures[PA].failure_count = 6
    /\ CooldownOf(failures[PA]) = 5 * defaultCooldown
    /\ failures[PB].failure_type = "rate_limit" /\ failures[PB].failure_count = 3
    /\ ShouldSkip(failures, PA, now) /\ ~ShouldSkip(failures, PB, now)

---------------------------------------------------------------------------
(* The permanent-failure tracker on its own: its operations called in any   *)
(* order, as the request handlers may call them.  The routing engine        *)
(* reaches the maps only through these methods.                             *)

TrackerMaxTime == 2

InitTracker ==
    /\ InitCommon
    /\ freeModels = <<PA, PB>>
    /\ modelFilter = {}

TrackerOp(op, m, result) ==
    /\ trkHist' = [op |-> op, model |-> m, before |-> permanentFailed, result |-> result]
    /\ limHist' = limHist

\* PermanentFailureTracker.MarkPermanentFailure(m)
TrkMarkPermanent ==
    \E m \in Models :
        /\ permanentFailed' = MarkPermanentFailure(permanentFailed, m)
        /\ TrackerOp("MarkPermanentFailure", m, FALSE)
        /\ UNCHANGED <<now, storeVars, cfgVars, startVars, poolVars, concVars, limiters,
                       lastGlobal, temporaryFailed, reqVars>>

\* PermanentFailureTracker.MarkTemporaryFailure(m)
TrkMarkTemporary ==
    \E m \in Models :
        /\ temporaryFailed' = [temporaryFailed EXCEPT ![m] = now]
        /\ TrackerOp("MarkTemporaryFailure", m, FALSE)
        /\ UNCHANGED <<now, storeVars, cfgVars, startVars, poolVars, concVars, limiters,
                       lastGlobal, permanentFailed, reqVars>>

\* PermanentFailureTracker.ClearTemporaryFailure(m)
TrkClearTemporary ==
    \E m \in Models :
        /\ temporaryFailed' = [temporaryFailed EXCEPT ![m] = Never]
        /\ TrackerOp("ClearTemporaryFailure", m, FALSE)
        /\ UNCHANGED <<now, storeVars, cfgVars, startVars, poolVars, concVars, limiters,
                       lastGlobal, permanentFailed, reqVars>>

\* PermanentFailureTracker.IsPermanentlyFailed(m)
TrkIsPermanentlyFailed ==
    \E m \in Models :
        /\ TrackerOp("IsPermanentlyFailed", m, IsPermanentlyFailed(permanentFailed, m))
        /\ UNCHANGED <<now, storeVars, cfgVars, startVars, poolVars, concVars, limiters,
                       lastGlobal, permanentFailed, temporaryFailed, reqVars>>

TrackerTick == TickUpTo(TrackerMaxTime)

NextTracker ==
    \/ TrkMarkPermanent \/ TrkMarkTemporary \/ TrkClearTemporary
    \/ TrkIsPermanentlyFailed \/ TrackerTick

SpecTracker == InitTracker /\ [][NextTracker]_vars

\* C25: the permanent-failure set only grows: no operation removes a model
\* from it (ClearTemporaryFailure included), and marking a model that is
\* already in the set leaves the set and every IsPermanentlyFailed result as
\* they were.
C25_PermanentSetOnlyGrows ==
    [][/\ permanentFailed \subseteq permanentFailed'
       /\ (trkHist'.op = "MarkPermanentFailure" /\ trkHist'.model \in permanentFailed)
          => /\ permanentFailed' = permanentFailed
             /\ \A m \in Models : IsPermanentlyFailed(permanentFailed', m)
                                    <=> IsPermanentlyFailed(permanentFailed, m)
       /\ trkHist'.op = "IsPermanentlyFailed"
          => (trkHist'.result <=> trkHist'.model \in permanentFailed)]_vars

\* p/a has just been marked permanent a second time, with a temporary mark
\* of its own, while p/b is in the set without one
C25_Witness ==
    /\ trkHist.op = "MarkPermanentFailure"
    /\ trkHist.model = PA
    /\ PA \in trkHist.before
    /\ permanentFailed = {PA, PB}
    /\ temporaryFailed[PA] # Never
    /\ temporaryFailed[PB] = Never

---------------------------------------------------------------------------
(* POST /v1/chat/completions with stream=true in free mode: the routing     *)
(* engine as above, then the Recv loop of handleOpenAIStreaming with the    *)
(* content of every delta and of every frame.  Upstream deltas carry one    *)
(* choice.                                                                  *)

\* what stream.Recv() may yield: Choices[0].Delta.Content and FinishReason
Deltas == [content : {"x", "y"}, finish : {"", "stop"}]

\* history: the deltas stream.Recv() has returned for this request
Received == IF "recv" \in DOMAIN rt THEN rt.recv ELSE <<>>

Receive(d) ==
    [full |-> rt.full, idx |-> rt.idx, lastError |-> rt.lastError, wake |-> rt.wake,
     model |-> rt.model, recv |-> Append(Received, d)]

\* the openai.ChatCompletionStreamResponse built for a delta
OpenAIChunk(fullModelName, d, t) ==
    [id |-> <<"chatcmpl-", UnixSeconds(t)>>, object |-> "chat.completion.chunk",
     created |-> UnixSeconds(t), model |-> fullModelName,
     content |-> d.content, finish_reason |-> d.finish]

\* variant: the frame is left in the writer's buffer
SSEFrame_Unflushed(kind, payload) == [kind |-> kind, data |-> payload, flushed |-> FALSE]

\* fmt.Fprintf(w, "data: %s\n\n", ...) or fmt.Fprintf(w, "data: [DONE]\n\n"),
\* followed by flusher.Flush()
SSEFrame(kind, payload) == [kind |-> kind, data |-> payload, flushed |-> TRUE]

SSERequest ==
    \E model \in RequestNames : Request("openai", TRUE, model, FALSE, 1)

\* stream.Recv() returns a delta: one data frame
SSERecvDelta ==
    /\ pc = "streaming"
    /\ Len(Received) < MaxChunks
    /\ \E d \in Deltas :
         /\ rt' = Receive(d)
         /\ resp' = Written(SSEFrame("json", OpenAIChunk(resp.model, d, now)))
    /\ UNCHANGED <<now, storeVars, cfgVars, startVars, poolVars, concVars, trackVars, pc,
                   req, reqCalls, lastUp, nreq>>

\* stream.Recv() returns io.EOF: the [DONE] frame, break
SSERecvEOF ==
    /\ pc = "streaming"
    /\ resp' = Written(SSEFrame("[DONE]", <<>>))
    /\ pc' = "done"
    /\ UNCHANGED <<now, storeVars, cfgVars, startVars, poolVars, concVars, trackVars,
                   req, rt, reqCalls, lastUp, nreq>>

\* stream.Recv() returns another error: break
SSERecvError ==
    /\ pc = "streaming"
    /\ resp' = [resp EXCEPT !.recvError = TRUE]
    /\ pc' = "done"
    /\ UNCHANGED <<now, storeVars, cfgVars, startVars, poolVars, concVars, trackVars,
                   req, rt, reqCalls, lastUp, nreq>>

NextSSE ==
    \/ HandlerTick
    \/ SSERequest
    \/ GetFreeForModel
    \/ DirectReturnAny
    \/ SweepReturnAny
    \/ SweepSleepDone
    \/ SSERecvDelta
    \/ SSERecvEOF
    \/ SSERecvError

SpecSSE == Init /\ [][NextSSE]_vars

\* the stream of this request has ended with io.EOF
EndedWithEOF ==
    /\ pc = "done" /\ req.kind = "openai" /\ req.stream
    /\ resp.status = 200 /\ ~resp.recvError

\* C26: on /v1/chat/completions with stream=true, an upstream stream that
\* yields n deltas and then EOF produces exactly n+1 wire frames: n data
\* frames carrying the deltas in upstream order, then exactly one
\* data: [DONE] frame, each flushed after it is written.
C26_DeltasThenOneDone ==
    /\ pc \in {"streaming", "done"} =>
          \A i \in 1..Len(resp.frames) : resp.frames[i].flushed
    /\ pc = "streaming" =>
          /\ Len(resp.frames) = Len(Received)
          /\ \A i \in 1..Len(Received) : resp.frames[i].kind = "json"
    /\ EndedWithEOF =>
          LET n == Len(Received) IN
          /\ Len(resp.frames) = n + 1
          /\ \A i \in 1..n :
                /\ resp.frames[i].kind = "json"
                /\ resp.frames[i].data.content = Received[i].content
                /\ resp.frames[i].data.finish_reason = Received[i].finish
                /\ resp.frames[i].data.model = resp.model
          /\ resp.frames[n + 1].kind = "[DONE]"

\* two different deltas, then EOF: three frames
C26_Witness ==
    /\ EndedWithEOF
    /\ Len(Received) = 2
    /\ Received[1].content = "y" /\ Received[2].content = "x"
    /\ Received[2].finish = "stop"
    /\ Len(resp.frames) = 3

---------------------------------------------------------------------------
(* Routing engine: claims C27 .. C30, checked under Spec *)

\* the place of a model in the pool
PoolIndex(m) == CHOOSE i \in 1..Len(freeModels) : freeModels[i] = m

\* after the step, the sweep has to pass over m: it is permanently failed,
\* or its display name does not pass the filter, or the failure store holds
\* it back
PassedOverNext(m) ==
    \/ m \in permanentFailed'
    \/ ~(modelFilter = {} \/ \E entry \in modelFilter : IsSubstringOf(entry, displayNameOf(m)))
    \/ ShouldSkip(failures', m, now')

ErrorClassOf(out) ==
    IF \E w \in {ErrNotFound, ErrQuota404} : Contains(out, w) THEN "permanent"
    ELSE IF Contains(out, ErrRateLimit) THEN "rate_limit"
    ELSE "general"

\* the failure store differs from before in the row of m at most
OnlyRowChanged(m) ==
    \A o \in Models : o # m => failures'[o] = failures[o]

\* the row of m after one more mark of class c made now
MarkedOnce(m, c) ==
    /\ failures'[m] # NoRow
    /\ failures'[m].failure_type = c
    /\ failures'[m].failed_at = UnixSeconds(now)
    /\ failures'[m].failure_count =
          (IF failures[m] = NoRow THEN 0 ELSE failures[m].failure_count) + 1

\* C28: when the call to a sweep candidate m fails, one tracker update is
\* made by the class of the error, permanent before rate-limit: a permanent
\* error adds m to the permanent set and writes nothing to the failure
\* store; a rate-limit error records class rate_limit; any other error
\* records class general; in all three cases the limiter of m has
\* RecordFailure called and the sweep goes on with the next candidate.
C28_OneTrackerUpdatePerSweepFailure ==
    [][/\ (pc = "sweepCall" /\ (pc' # "sweepCall" \/ rt' # rt) /\ resp'.status # 200) =>
             LET m     == rt.model
                 class == ErrorClassOf(rt'.lastError)
             IN  /\ rt'.lastError # NoError
                 /\ limiters'[m].failureCount = limiters[m].failureCount + 1
                 /\ class = "permanent" =>
                       /\ permanentFailed' = permanentFailed \cup {m}
                       /\ failures' = failures
                 /\ class = "rate_limit" =>
                       /\ MarkedOnce(m, "rate_limit") /\ OnlyRowChanged(m)
                       /\ permanentFailed' = permanentFailed
                       /\ pc' = "sweepSleep"
                 /\ class = "general" =>
                       /\ MarkedOnce(m, "general") /\ OnlyRowChanged(m)
                       /\ permanentFailed' = permanentFailed
                 /\ pc' \in {"sweepCall", "backoffWait"} => rt'.idx > rt.idx
                 /\ pc' \in {"sweepSleep", "sweepCall", "backoffWait", "done"}
       /\ (pc = "sweepSleep" /\ pc' # "sweepSleep") =>
             /\ rt'.idx > rt.idx
             /\ failures' = failures
             /\ permanentFailed' = permanentFailed]_vars

\* the sweep's call to p/a was answered "404 quota exceeded", an error of
\* both classes: p/a is in the permanent set, has no row, and its limiter
\* counts one failure
C28_Witness ==
    /\ Len(reqCalls) >= 1
    /\ reqCalls[1].phase = "sweep" /\ reqCalls[1].model = PA
    /\ isPermanentError(reqCalls[1].out) /\ isRateLimitError(reqCalls[1].out)
    /\ PA \in permanentFailed
    /\ failures[PA] = NoRow
    /\ limiters[PA] # NoLimiter
    /\ limiters[PA].failureCount = 1

---------------------------------------------------------------------------
(* The direct attempt: /api/chat requests by display name, by full id and   *)
(* by an unknown name, two in a row, under filters that pass or reject the  *)
(* requested display name.                                                  *)

DirectNames == {<<"a">>, <<"b">>, PA, <<"u">>}

DirectFilterChoices == {{}, {<<"a">>}, {<<"b">>}}

InitDirect ==
    /\ InitCommon
    /\ freeModels \in PoolChoices
    /\ modelFilter \in DirectFilterChoices

DirectRequestAny ==
    \E stream \in BOOLEAN, model \in DirectNames :
        Request("chat", stream, model, FALSE, MaxRequests)

NextDirect ==
    \/ Tick
    \/ DirectRequestAny
    \/ GetFreeForModel
    \/ DirectReturnAny
    \/ SweepReturnAny
    \/ SweepSleepDone
    \/ StreamChunk
    \/ StreamEOF
    \/ StreamError

SpecDirect == InitDirect /\ [][NextDirect]_vars

\* the pool entries whose display name is the requested name, when that
\* name passes the filter
MatchesByDisplayName ==
    {i \in 1..Len(freeModels) :
        /\ displayNameOf(freeModels[i]) = req.model
        /\ (modelFilter = {} \/ \E entry \in modelFilter : IsSubstringOf(entry, req.model))}

\* the model a direct attempt of this request is for
DirectTarget ==
    IF MatchesByDisplayName # {}
    THEN freeModels[CHOOSE i \in MatchesByDisplayName :
                        \A j \in MatchesByDisplayName : i <= j]
    ELSE req.model

\* a direct attempt applies to this request
DirectApplies ==
    /\ \/ MatchesByDisplayName # {}
       \/ \E i \in 1..Len(freeModels) : freeModels[i] = req.model
    /\ ~ShouldSkip(failures, DirectTarget, now)

NoRecordOnLimiters ==
    \A o \in Models :
        IF limiters[o] = NoLimiter
        THEN limiters'[o] # NoLimiter =>
                /\ limiters'[o].failureCount = NewRateLimiter.failureCount
                /\ limiters'[o].backoffUntil = NewRateLimiter.backoffUntil
        ELSE /\ limiters'[o] # NoLimiter
             /\ limiters'[o].failureCount = limiters[o].failureCount
             /\ limiters'[o].backoffUntil = limiters[o].backoffUntil

\* C30: the direct attempt leaves all rate-limiter state unchanged: it waits
\* on no limiter and on no global pacer and calls neither RecordSuccess nor
\* RecordFailure; when it fails it records class general in the failure
\* store whatever the class of the error, and the permanent set stays as it
\* was.
C30_DirectAttemptLeavesLimitersAlone ==
    [][/\ (pc = "route" /\ pc' = "directCall") =>
             /\ limiters' = limiters
             /\ lastGlobal' = lastGlobal
             /\ permanentFailed' = permanentFailed
             /\ reqCalls'[1].at = req.start
       /\ (pc = "directCall" /\ pc' # "directCall") =>
             LET m == reqCalls[1].model IN
             /\ permanentFailed' = permanentFailed
             /\ NoRecordOnLimiters
             /\ reqCalls'[1].out = <<"ok">> =>
                   /\ limiters' = limiters
                   /\ lastGlobal' = lastGlobal
             /\ reqCalls'[1].out # <<"ok">> =>
                   /\ failures' = [failures EXCEPT ![m] =
                                     Row(UnixSeconds(now), "general",
                                         (IF failures[m] = NoRow THEN 0
                                          ELSE failures[m].failure_count) + 1)]
                   /\ Len(reqCalls') = 1 =>
                         (limiters' = limiters /\ lastGlobal' = lastGlobal)]_vars

\* the direct attempt for p/a was answered "404 quota exceeded", an error
\* of the permanent and of the rate-limit class: p/a has a general row, is
\* not in the permanent set and has no limiter
C30_Witness ==
    /\ Len(reqCalls) >= 1
    /\ reqCalls[1].phase = "direct" /\ reqCalls[1].model = PA
    /\ isPermanentError(reqCalls[1].out) /\ isRateLimitError(reqCalls[1].out)
    /\ failures[PA] # NoRow
    /\ failures[PA].failure_type = "general"
    /\ PA \notin permanentFailed
    /\ limiters[PA] = NoLimiter

---------------------------------------------------------------------------
(* Termination of a free-mode chat request: claim C31 *)

\* an upstream call answers: the http client of the provider returns, with a
\* response or with an error
AnswerFairness(p) == WF_vars(DirectAnswer(p)) /\ SF_vars(CallAnswer(p))

\* a pool of two models, from the moment (clock 0) the second goroutine has
\* answered its request with the direct attempt on p/a: one request walks
\* the whole pool
InitConcSweep ==
    /\ now = 0
    /\ defaultCooldown = 2 * TicksPerSec
    /\ rateLimitCooldown = TicksPerSec
    /\ freeMode = TRUE
    /\ freeModels = <<PA, PB>>
    /\ modelFilter = {}
    /\ failures = [m \in Models |-> NoRow]
    /\ stLast = [m \in Models |-> [op |-> "none", at |-> 0, class |-> "none", marks |-> 0]]
    /\ permanentFailed = {}
    /\ temporaryFailed = [m \in Models |-> Never]
    /\ trkHist = NoTrkHist
    /\ limHist = NoLimHist
    /\ modelNames = <<>>
    /\ limiters = [m \in Models |-> NoLimiter]
    /\ lastGlobal = Never
    /\ pc = "idle" /\ req = IdleReq /\ rt = IdleRt /\ resp = IdleResp
    /\ reqCalls = <<>>
    /\ lastUp = [class |-> [m \in Models |-> "none"], at |-> Never]
    /\ nreq = 0
    /\ handlers = [p \in Procs |-> IF p = 1 THEN IdleHandler
                                   ELSE [IdleHandler EXCEPT !.served = MaxServed]]
    /\ held = [p \in Procs |-> {}]
    /\ upHist = [last |-> 0, gap |-> Never]
    /\ clock = 0
    /\ StartupDone

\* the fair runs in which, besides, every upstream call answers: all
\* handlers at one limiter, or one handler over two models
SpecConcTerm ==
    /\ InitConcFair \/ InitConcSweep
    /\ [][NextConc]_vars
    /\ WF_vars(ConcTick)
    /\ \A p \in Procs : HandlerFairness(p) /\ AnswerFairness(p)

\* handler p serves a request
Serving(p) == handlers[p].pc # "idle"

\* the step in which handler p returns from getFreeChatForModel
ReturnsNext(p) == Serving(p) /\ handlers'[p].pc = "idle"

\* C31: every free-mode chat request returns after finitely many steps
\* (every upstream call, Wait, WaitGlobal and sleep ending); it returns a
\* response only in the step after an upstream call that succeeded (the
\* direct attempt's answer, or ClearFailure after the sweep's answer), and
\* an error only when the loop over the pool has passed the last entry.
C31_RequestTerminates ==
    /\ [][\A p \in Procs :
            ReturnsNext(p) =>
              \/ /\ handlers[p].pc = "directCall"
                 /\ failures' = ClearFailure(failures, handlers[p].model)
              \/ /\ handlers[p].pc = "clear"
                 /\ failures' = ClearFailure(failures, handlers[p].model)
              \/ /\ handlers[p].pc = "sweep"
                 /\ handlers[p].idx = Len(freeModels) + 1
                 /\ UNCHANGED <<failures, trackVars>>]_vars
    /\ \A p \in Procs : Serving(p) ~> ~Serving(p)

\* a request that is about to return the error after both models of the
\* pool were called and failed
C31_Witness ==
    \E p \in Procs :
        /\ handlers[p].pc = "sweep"
        /\ Len(freeModels) = 2
        /\ handlers[p].idx = 3
        /\ \A i \in 1..2 : SweepSkips(freeModels[i], permanentFailed, failures)
        /\ limiters[PA] # NoLimiter /\ limiters[PB] # NoLimiter

---------------------------------------------------------------------------
(* The registry mutex: claim C32 *)

\* handler p is inside GetLimiter and cannot go on: handler q holds the
\* registry mutex in the time.Sleep of WaitGlobal, which is not over
BlockedBySleepingWaitGlobal(p, q) ==
    /\ handlers[p].pc = "getLimiter"
    /\ handlers[q].pc = "inGlobal"
    /\ RegistryMu \in held[q]
    /\ clock < handlers[q].wake

\* C32 (as stated): the registry mutex is held only to look up or insert a
\* limiter, so no GetLimiter call waits while another request sleeps in
\* WaitGlobal; and the registry holds one limiter per model, which every
\* handler that is past GetLimiter(m) uses.
C32_RegistryLockOnlyForLookup ==
    /\ \A p, q \in Procs : ~BlockedBySleepingWaitGlobal(p, q)
    /\ \A p \in Procs :
         handlers[p].pc \in {"wait", "inWait", "call"} => limiters[handlers[p].model] # NoLimiter

---------------------------------------------------------------------------
(* One limiter on its own: RecordFailure, RecordSuccess and ShouldRetry     *)
(* called in any order on the limiter of p/a.  Here the limiter's           *)
(* backoffUntil is kept in microseconds, as time.Now().Add(backoffDuration) *)
(* computes it.  Claim C33.                                                  *)

LimMaxTime     == 1
LimMaxFailures == 39

\* values of time.Now().UnixNano()%100: both ends and the middle
LimJitterSamples == JitterSamples \cup {50}

\* a rate-limit error and one that is none
LimErrors == {ErrRateLimit, ErrTimeout}

\* time.Now() in microseconds
NowUs == now * TickUs

\* the state of a server whose registry holds the limiter of p/a
InitLimiterInserted ==
    /\ now = 0
    /\ InitConfig
    /\ freeModels = <<PA>>
    /\ modelFilter = {}
    /\ handlers = [p \in Procs |-> IdleHandler]
    /\ held = [p \in Procs |-> {}]
    /\ upHist = NoUpHist
    /\ clock = 0
    /\ modelNames = <<>>
    /\ failures = [m \in Models |-> NoRow]
    /\ stLast = [m \in Models |-> [op |-> "none", at |-> 0, class |-> "none", marks |-> 0]]
    /\ permanentFailed = {}
    /\ temporaryFailed = [m \in Models |-> Never]
    /\ trkHist = NoTrkHist
    /\ limHist = NoLimHist
    /\ limiters = GetLimiter([m \in Models |-> NoLimiter], PA)
    /\ lastGlobal = Never
    /\ pc = "idle" /\ req = IdleReq /\ rt = IdleRt /\ resp = IdleResp
    /\ reqCalls = <<>>
    /\ lastUp = [class |-> [m \in Models |-> "none"], at |-> Never]
    /\ nreq = 0
    /\ StartupDone

LimiterOp(op, err, result) ==
    /\ limHist' = [op |-> op, before |-> limiters[PA], err |-> err, at |-> NowUs,
                   result |-> result]
    /\ UNCHANGED <<now, storeVars, cfgVars, startVars, poolVars, concVars, permanentFailed,
                   lastGlobal, temporaryFailed, trkHist, reqVars>>

\* limiter.RecordFailure(err)
LimRecordFailure ==
    \E err \in LimErrors, r \in LimJitterSamples, conv \in ConversionOutcomes :
        LET l == limiters[PA]
            b == calculateBackoff(l.failureCount + 1, r, conv)
        IN  /\ l.failureCount < LimMaxFailures
            /\ limiters' = [limiters EXCEPT ![PA] = RecordFailure(l, err, NowUs + b)]
            /\ LimiterOp("RecordFailure", err, FALSE)

\* limiter.RecordSuccess()
LimRecordSuccess ==
    /\ limiters' = [limiters EXCEPT ![PA] = RecordSuccess(@)]
    /\ LimiterOp("RecordSuccess", NoError, FALSE)

\* limiter.ShouldRetry()
LimShouldRetry ==
    /\ limiters' = limiters
    /\ LimiterOp("ShouldRetry", NoError, ShouldRetry(limiters[PA]))

LimiterTick == TickUpTo(LimMaxTime)

NextLimiter == LimRecordFailure \/ LimRecordSuccess \/ LimShouldRetry \/ LimiterTick

SpecLimiter == InitLimiterInserted /\ [][NextLimiter]_vars

\* the delay before the jitter, as the claim has it: base_delay after the
\* first failure, doubled by each further one, at most max_delay
RECURSIVE CappedDelay(_)
CappedDelay(failureCount) ==
    IF failureCount <= 1 THEN BaseDelayUs
    ELSE IF 2 * CappedDelay(failureCount - 1) > MaxDelayUs THEN MaxDelayUs
    ELSE 2 * CappedDelay(failureCount - 1)

\* C33 (as stated): RecordFailure(err) adds 1 to failure_count for every error, and for
\* a rate-limit error alone sets backoff_until = now + b with b between
\* 0.875 and 1.125 times min(base_delay * 2^(failure_count-1), max_delay);
\* RecordSuccess sets failure_count to 0 and clears backoff_until;
\* ShouldRetry answers failure_count < 3 and changes nothing.
C33_BackoffDoublesWithJitter ==
    LET l == limiters[PA]
        h == limHist
    IN  /\ (h.op = "RecordFailure" /\ isRateLimitError(h.err))
           => /\ l.failureCount = h.before.failureCount + 1
              /\ 8 * (l.backoffUntil - h.at) >= 7 * CappedDelay(l.failureCount)
              /\ 8 * (l.backoffUntil - h.at) <= 9 * CappedDelay(l.failureCount)
        /\ (h.op = "RecordFailure" /\ ~isRateLimitError(h.err))
           => /\ l.failureCount = h.before.failureCount + 1
              /\ l.backoffUntil = h.before.backoffUntil
        /\ (h.op = "RecordSuccess")
           => /\ l.failureCount = 0
              /\ l.backoffUntil = Never
        /\ (h.op = "ShouldRetry")
           => /\ h.result <=> (l.failureCount < 3)
              /\ l = h.before

---------------------------------------------------------------------------
(* The failure store after a request was served: claim C34 *)

\* the step in which getFreeChatForModel / getFreeStreamForModel returns a
\* response and the model it came from
ServedNext ==
    /\ pc \in {"directCall", "sweepCall"}
    /\ pc' \in {"done", "streaming"}
    /\ resp'.status = 200

\* C34 (as stated): when a free-mode request has been served by model m, in
\* the direct attempt or in the sweep, ShouldSkip(m) is false right after
\* ClearFailure(m), whatever row m had before.
C34_ServedModelNotSuppressed ==
    [][ServedNext => ~ShouldSkip(failures', resp'.model, now')]_vars

---------------------------------------------------------------------------
(* Wait() on a limiter that is in backoff: claim C35.  The store suppresses *)
(* a model after a rate-limit error for RATELIMIT_COOLDOWN_MINUTES; with    *)
(* that set to 0 every later request reaches the limiter during its         *)
(* backoff.  (With a cooldown, only requests that were past ShouldSkip when *)
(* the error was recorded do.)                                             *)

\* pool [p/a], rate-limit cooldown 0, at the moment (clock 0) the sweep of a
\* first request has called p/a, was answered with a rate-limit error and
\* has recorded it in the limiter and in the store
InitConcBackoff ==
    /\ now = 0
    /\ defaultCooldown = 2 * TicksPerSec
    /\ rateLimitCooldown = 0
    /\ freeMode = TRUE
    /\ freeModels = <<PA>>
    /\ modelFilter = {}
    /\ failures = MarkFailureWithType([m \in Models |-> NoRow], PA, "rate_limit", 0)
    /\ stLast = [m \in Models |-> [op |-> "none", at |-> 0, class |-> "none", marks |-> 0]]
    /\ permanentFailed = {}
    /\ temporaryFailed = [m \in Models |-> Never]
    /\ trkHist = NoTrkHist
    /\ limHist = NoLimHist
    /\ modelNames = <<>>
    /\ \E bu \in ConcBackoffUntilChoices(1, 0) :
         limiters = [m \in Models |->
                       IF m = PA
                       THEN RecordFailure([NewRateLimiter EXCEPT !.lastRequestTime = 0],
                                          ErrRateLimit, bu)
                       ELSE NoLimiter]
    /\ lastGlobal = 0
    /\ pc = "idle" /\ req = IdleReq /\ rt = IdleRt /\ resp = IdleResp
    /\ reqCalls = <<>>
    /\ lastUp = [class |-> [m \in Models |-> "none"], at |-> Never]
    /\ nreq = 0
    /\ handlers = [p \in Procs |-> IdleHandler]
    /\ held = [p \in Procs |-> {}]
    /\ upHist = [last |-> 0, gap |-> Never]
    /\ clock = 0
    /\ StartupDone

\* the handlers meet at a limiter that has just been stamped, or at one that
\* is in backoff
SpecConcBackoff == (InitConcFair \/ InitConcBackoff) /\ [][NextConc]_vars

\* handler p has returned from Wait() and has not gone on yet
BackFromWait(p) == handlers[p].ret # Never

\* C35 (as stated): any two returns of Wait() on one limiter are at least
\* min_interval apart, whichever branch the earlier one took.
C35_WaitReturnsSpaced ==
    \A p, q \in Procs :
        (p # q /\ BackFromWait(p) /\ BackFromWait(q)
            /\ handlers[p].model = handlers[q].model)
        => \/ handlers[p].ret - handlers[q].ret >= ConcTicks(MinIntervalUs)
           \/ handlers[q].ret - handlers[p].ret >= ConcTicks(MinIntervalUs)

\* the step in which handler p returns from Wait() through the branch that
\* stamps lastRequestTime
StampingReturnNext(p) ==
    /\ handlers[p].pc = "inWait"
    /\ handlers[p].branch = "interval"
    /\ handlers'[p].pc = "waitGlobal"

\* C35 (amended): a return of Wait() that stamps last_request_time (one not
\* through the backoff branch) is at least min_interval after the stamp it
\* finds, the latest return of that kind on the limiter: any two such
\* returns are min_interval apart, with concurrent waiters as well.
C35_StampingReturnsSpaced ==
    [][\A p \in Procs :
          StampingReturnNext(p) =>
             LET m == handlers[p].model IN
             /\ limiters'[m].lastRequestTime = clock'
             /\ \/ limiters[m].lastRequestTime = Never
                \/ clock' - limiters[m].lastRequestTime >= ConcTicks(MinIntervalUs)]_vars

\* a handler is back from Wait() through the stamping branch, in which it
\* had to sleep, while the other handler waits for the mutex of the same
\* limiter
C35_Witness ==
    \E p, q \in Procs :
        /\ p # q
        /\ BackFromWait(q) /\ handlers[q].branch = "interval"
        /\ handlers[q].ret > handlers[q].entry.at
        /\ handlers[q].ret = limiters[PA].lastRequestTime
        /\ handlers[p].pc = "wait"
        /\ handlers[p].model = PA /\ handlers[q].model = PA

---------------------------------------------------------------------------
(* The filter and the upstream calls: claim C36 *)

\* C36 (as stated): in free mode with a non-empty filter, every upstream
\* chat call of a request, in the direct attempt or in the sweep, goes to a
\* model whose display name passes the filter, whatever name was asked for.
C36_NoCallToFilteredOutModel ==
    (freeMode /\ modelFilter # {})
    => \A i \in 1..Len(reqCalls) : isModelInFilter(displayNameOf(reqCalls[i].model))

---------------------------------------------------------------------------
(* A request with an empty messages list: claim C37 *)

\* failureCount of the limiter of m, 0 while the registry has none
FailureCountOf(lims, m) == IF lims[m] = NoLimiter THEN 0 ELSE lims[m].failureCount

\* C37 (as stated): no step of the handling of a chat request with an empty
\* messages list changes a row of the failure store, the permanent set or
\* the failureCount of a limiter, on /api/chat, /api/generate and
\* /v1/chat/completions in free mode.
C37_InvalidRequestLeavesRoutingState ==
    [][(req.msgsEmpty /\ req' = req)
        => /\ failures' = failures
           /\ permanentFailed' = permanentFailed
           /\ \A m \in Models : FailureCountOf(limiters', m) = FailureCountOf(limiters, m)]_vars

---------------------------------------------------------------------------
(* What ClearFailure changes: claim C38 (the failure store on its own) *)

\* the step is ClearFailure(m)
ClearNext(m) == stLast'[m] # stLast[m] /\ stLast'[m].op = "clear"

\* the step is MarkFailure(m), and the last operation on m before it was
\* ClearFailure(m)
MarkAfterClearNext(m) ==
    /\ stLast[m].op = "clear"
    /\ stLast'[m].op = "mark"
    /\ stLast'[m].class = "general"

\* C38: ClearFailure(m) sets failure_count to 0 and failure_type to cleared
\* in the row of m and nothing else: the row stays, failed_at stays, the
\* rows of the other models stay, and a model without a row has none
\* afterwards; the next MarkFailure(m) gives count 1 and with it the base
\* cooldown, not a multiple of it.
C38_ClearKeepsRowResetsCount ==
    [][\A m \in Models :
          /\ (ClearNext(m) /\ failures[m] = NoRow) => failures'[m] = NoRow
          /\ (ClearNext(m) /\ failures[m] # NoRow)
             => /\ failures'[m] # NoRow
                /\ failures'[m].failed_at = failures[m].failed_at
                /\ failures'[m].failure_count = 0
                /\ failures'[m].failure_type = "cleared"
          /\ ClearNext(m) => \A o \in Models \ {m} : failures'[o] = failures[o]
          /\ MarkAfterClearNext(m)
             => /\ failures'[m] # NoRow
                /\ failures'[m].failure_count = 1
                /\ failures'[m].failed_at = UnixSeconds(now)
                /\ CooldownOf(failures'[m]) = defaultCooldown]_vars

\* the row of p/a was cleared a second or more after its last mark and is
\* still there with its failed_at, while p/b keeps a row with count 2
C38_Witness ==
    /\ stLast[PA].op = "clear"
    /\ failures[PA] # NoRow
    /\ failures[PA].failure_type = "cleared" /\ failures[PA].failure_count = 0
    /\ failures[PA].failed_at < UnixSeconds(stLast[PA].at)
    /\ failures[PB] # NoRow /\ failures[PB].failure_count = 2

=============================================================================
